---- MODULE Spec2Model ----
(***************************************************************************)
(* VECTOR-LOAD engine: the constructive packer pack_by_order and the GA    *)
(* driver optimize_ga of engine/src/ga_packer.cpp.                         *)
(*                                                                         *)
(* Numbers.  The code computes in double; the model computes exactly, on a *)
(* grid.  Lengths are integer multiples of a length unit L, weights and    *)
(* loads of a weight unit W = L^2 * (1 kg/m^2), so that the pressure       *)
(* constant 2500 kg/m^2 is 2500 W per grid area unit on every grid.        *)
(* Two grids are used:                                                     *)
(*   fine = FALSE : L = 1 m (areas m^2, weights kg).  Every tolerance of   *)
(*                  the code (1e-6, 1e-8, 1e-9) is below the grid, and a   *)
(*                  comparison  a > b + eps  of grid values is  a > b.     *)
(*   fine = TRUE  : L = 1e-5 m (areas 1e-10 m^2, weights 1e-10 kg).  Here  *)
(*                  kEps = 1e-8 is 100 area or weight units and the 1e-9   *)
(*                  slack is 10 of them; the length tolerances stay below  *)
(*                  the grid.                                              *)
(* Quotients (load shares, utilization, score) are exact rationals         *)
(* [n |-> numerator, d |-> denominator > 0] in lowest terms.               *)
(* C++ indices are 0-based, sequences here 1-based: box index i of the     *)
(* code is i+1 here.                                                       *)
(***************************************************************************)
EXTENDS Integers, Sequences, FiniteSets, TLC

VARIABLES
  \* The request, shared by the calls of one behaviour.
  fine,              \* which grid the request is on (see above)
  truck,             \* Truck {w, h, d, max_weight}
  boxes,             \* std::vector<Box>
  req_population,    \* argument population of optimize_ga
  req_generations,   \* argument generations of optimize_ga
  mutation_rate,     \* argument mutation_rate, in units of 1/UniRes
  seed,              \* argument seed; -1 when the stream is left open
  sort_keeps_ties,   \* the build: whether std::sort keeps equal elements in order
  \* The locals of each call (run) r of optimize_ga / pack_by_order.
  pc,                \* control position
  ret,               \* who called pack_by_order
  order,             \* pack_by_order: the permutation being evaluated
  pos,               \* pack_by_order: position of the for loop in order
  placed,            \* pack_by_order: std::vector<PlacedState>
  candidates,        \* pack_by_order: std::vector<Candidate>
  remaining_weight,  \* pack_by_order: remaining_weight
  result,            \* pack_by_order: Result under construction; then the Result returned
  population,        \* optimize_ga: population after capping
  generations,       \* optimize_ga: generations after capping
  pop,               \* optimize_ga: std::vector<Individual> pop
  next,              \* optimize_ga: std::vector<Individual> next
  gen,               \* optimize_ga: loop counter gen
  p1,                \* optimize_ga: parent p1 (index into pop)
  p2,                \* optimize_ga: parent p2 (index into pop)
  child,             \* optimize_ga: order of the child being built
  rngpos,            \* words drawn from rng so far (counted when seeded)
  score0,            \* history: the score of the heuristic-seeded individual 0
  \* The viewer (App.jsx): one call of buildSupportAwareLoadOrder.
  vpc,               \* control position of the call
  items,             \* the copy of the placements passed in
  inDegree,          \* inDegree[i]: supports of items[i] not yet taken
  available,         \* indices whose supports have all been taken
  orderedIndices,    \* the indices taken so far, in order
  placedView,        \* the list returned
  \* The playback of App (App.jsx).
  visibleCount,      \* state visibleCount
  isPlaying,         \* state isPlaying
  busy,              \* state busy: a request is awaited
  timer,             \* a timeout of the playback effect is pending
  effectDue,         \* a dependency of the playback effect changed since it ran
  userPresent        \* the user is at the controls

inputVars == <<fine, truck, boxes, req_population, req_generations, mutation_rate,
               seed, sort_keeps_ties>>
packVars == <<order, pos, placed, candidates, remaining_weight, result>>
gaVars == <<population, generations, pop, next, gen, p1, p2, child, rngpos, score0>>
viewVars == <<vpc, items, inDegree, available, orderedIndices, placedView>>
playVars == <<visibleCount, isPlaying, busy, timer, effectDue, userPresent>>
vars == <<inputVars, pc, ret, packVars, gaVars, viewVars, playVars>>

Runs == DOMAIN pc

----------------------------------------------------------------------------
(* Arithmetic *)

Min(a, b) == IF a <= b THEN a ELSE b
Max(a, b) == IF a >= b THEN a ELSE b
Abs(a) == IF a < 0 THEN -a ELSE a

RECURSIVE Gcd(_, _)
Gcd(a, b) == IF b = 0 THEN a ELSE Gcd(b, a % b)

\* The rational n/d (d > 0) in lowest terms.
Rat(n, d) ==
  LET g == Gcd(Abs(n), d)
  IN IF n = 0 THEN [n |-> 0, d |-> 1] ELSE [n |-> n \div g, d |-> d \div g]
RInt(a) == [n |-> a, d |-> 1]
RAdd(p, q) == Rat(p.n * q.d + q.n * p.d, p.d * q.d)
RSub(p, q) == Rat(p.n * q.d - q.n * p.d, p.d * q.d)
RLess(p, q) == p.n * q.d < q.n * p.d
RLeq(p, q) == p.n * q.d <= q.n * p.d

Range(s) == {s[i] : i \in 1..Len(s)}

\* F(e), with e evaluated once: TLC evaluates an operator argument or a LET
\* definition anew at each of its uses, and a quantifier's bound value once.
Bind(e, F(_)) == CHOOSE r \in {F(v) : v \in {e}} : TRUE

\* The sum of s[lo..hi], taken by halves so that long sequences stay within
\* the evaluator's depth.
RECURSIVE SumRange(_, _, _)
SumRange(s, lo, hi) ==
  IF lo > hi THEN 0
  ELSE IF lo = hi THEN s[lo]
  ELSE SumRange(s, lo, (lo + hi) \div 2) + SumRange(s, ((lo + hi) \div 2) + 1, hi)

SumSeq(s) == Bind(s, LAMBDA v : SumRange(v, 1, Len(v)))

----------------------------------------------------------------------------
(* Constants of ga_packer.cpp, in grid units *)

\* kEps = 1e-8 used as a length (m): below both grids.
kEpsLen == 0
\* The 1e-6 of the top-face match (line 103), a length: below both grids.
kFaceTol == 0
\* kEps = 1e-8 used as an area (m^2) or as a load (kg).
kEps == IF fine THEN 100 ELSE 0
\* The 1e-9 slack of the coverage, crush and weight comparisons.
kSlack == IF fine THEN 10 ELSE 0
\* kMinSupportRatio = 0.90 = kMinSupportRatioNum / kMinSupportRatioDen
kMinSupportRatioNum == 9
kMinSupportRatioDen == 10
kMaxStackMultiplier == 6
kMaxPressure == 2500
kMaxCandidates == 350
\* llround(v * 100000.0) of a grid length v: quantization steps per unit.
QuantPerUnit == IF fine THEN 1 ELSE 100000

----------------------------------------------------------------------------
(* Geometry primitives *)

volume(w, h, d) == w * h * d

AABB(x, y, z, w, h, d) == [x |-> x, y |-> y, z |-> z, w |-> w, h |-> h, d |-> d]

\* intersects as a test of a's origin against b only.
intersects_origin_inside(a, b) ==
  /\ b.x <= a.x /\ a.x < b.x + b.w
  /\ b.y <= a.y /\ a.y < b.y + b.h
  /\ b.z <= a.z /\ a.z < b.z + b.d

intersects(a, b) ==
  LET sep_x == (a.x + a.w <= b.x) \/ (b.x + b.w <= a.x)
      sep_y == (a.y + a.h <= b.y) \/ (b.y + b.h <= a.y)
      sep_z == (a.z + a.d <= b.z) \/ (b.z + b.d <= a.z)
  IN ~(sep_x \/ sep_y \/ sep_z)

\* inside_truck without the test of the top face against the roof.
inside_truck_no_height(t, b) ==
  /\ b.x >= 0 /\ b.y >= 0 /\ b.z >= 0
  /\ (b.x + b.w) <= t.w /\ (b.z + b.d) <= t.d

inside_truck(t, b) ==
  /\ b.x >= 0 /\ b.y >= 0 /\ b.z >= 0
  /\ (b.x + b.w) <= t.w /\ (b.y + b.h) <= t.h /\ (b.z + b.d) <= t.d

overlap_1d(a0, a1, b0, b1) ==
  LET lo == Max(a0, b0)
      hi == Min(a1, b1)
  IN Max(0, hi - lo)

overlap_area_xz(top, bottom) ==
  LET ox == overlap_1d(top.x, top.x + top.w, bottom.x, bottom.x + bottom.w)
      oz == overlap_1d(top.z, top.z + top.d, bottom.z, bottom.z + bottom.d)
  IN ox * oz

\* px2, pz2 are the point's coordinates doubled (the centroid x + w/2 is on
\* the half grid); kEps as a length is below the half grid too.
point_in_overlap_xz(px2, pz2, top, bottom) ==
  LET x0 == Max(top.x, bottom.x)
      x1 == Min(top.x + top.w, bottom.x + bottom.w)
      z0 == Max(top.z, bottom.z)
      z1 == Min(top.z + top.d, bottom.z + bottom.d)
  IN /\ (px2 + 2 * kEpsLen) >= 2 * x0 /\ (px2 - 2 * kEpsLen) <= 2 * x1
     /\ (pz2 + 2 * kEpsLen) >= 2 * z0 /\ (pz2 - 2 * kEpsLen) <= 2 * z1

\* The load limit from the pressure alone, without the stack multiplier.
max_load_for_pressure_only(weight, base_area) ==
  Max(kEps, base_area * kMaxPressure)

max_load_for(weight, base_area) ==
  LET by_weight == weight * kMaxStackMultiplier
      by_pressure == base_area * kMaxPressure
  IN Max(kEps, Min(by_weight, by_pressure))

----------------------------------------------------------------------------
(* Support & crush kernel *)

\* The (index, overlap area) pairs of the placed boxes whose top face is at
\* the candidate's bottom face and whose xz overlap exceeds kEps, in index
\* order (the loop of lines 100-115).
RECURSIVE SupportsFrom(_, _, _)
SupportsFrom(i, candidate, pl) ==
  IF i > Len(pl) THEN <<>>
  ELSE LET s == pl[i]
           top_y == s.box.y + s.box.h
           area == overlap_area_xz(candidate, s.box)
       IN IF Abs(top_y - candidate.y) > kFaceTol THEN SupportsFrom(i + 1, candidate, pl)
          ELSE IF area <= kEps THEN SupportsFrom(i + 1, candidate, pl)
          ELSE <<[idx |-> i, area |-> area]>> \o SupportsFrom(i + 1, candidate, pl)

\* share = min(1, max(0, area / base_area)); added = weight * share.
AddedLoad(weight, area, base_area) ==
  LET q == Rat(area, base_area)
      share == IF RLess(RInt(1), q) THEN RInt(1)
               ELSE IF RLess(q, RInt(0)) THEN RInt(0) ELSE q
  IN Rat(weight * share.n, share.d)

\* The commit loop left out: no load_on_top changes.
ApplyLoads_none(pl, applied) == pl

\* placed[idx].load_on_top += added for every pair of applied.
RECURSIVE ApplyLoads(_, _)
ApplyLoads(pl, applied) ==
  IF applied = <<>> THEN pl
  ELSE LET a == Head(applied)
       IN ApplyLoads([pl EXCEPT ![a.idx].load_on_top = RAdd(@, a.added)], Tail(applied))

\* The crush loop left out: every share is accepted.
CrushOk_unchecked(pl, supports, weight, base_area) ==
  \A k \in 1..Len(supports) : supports[k].idx \in 1..Len(pl)

\* The loop of lines 126-132: every support can take its share.
CrushOk(pl, supports, weight, base_area) ==
  \A k \in 1..Len(supports) :
    LET idx == supports[k].idx
        added == AddedLoad(weight, supports[k].area, base_area)
    IN ~ RLess(RInt(pl[idx].max_load + kSlack), RAdd(pl[idx].load_on_top, added))

\* The coverage test with a ratio of one half.
CoverageOk_half(supported_area, base_area) ==
  ~ (2 * (supported_area + kSlack) < base_area)

\* The coverage measured against twice the candidate's base area.
CoverageOk_double_base(supported_area, base_area) ==
  ~ (kMinSupportRatioDen * (supported_area + kSlack)
       < kMinSupportRatioNum * 2 * base_area)

\* The coverage test of line 121, as its negation:
\* not (supported_area + 1e-9 < kMinSupportRatio * base_area).
CoverageOk(supported_area, base_area) ==
  ~ (kMinSupportRatioDen * (supported_area + kSlack) < kMinSupportRatioNum * base_area)

\* The kernel with the crush test and the application in one loop: the shares
\* of the supports before the first one that fails are applied and reported.
SupportCheck_single_loop(candidate, weight, pl, supports) ==
  LET base_area == Max(kEps, candidate.w * candidate.d)
      supported_area == SumSeq([k \in 1..Len(supports) |-> supports[k].area])
      centroid_supported ==
        \E k \in 1..Len(supports) :
          point_in_overlap_xz(2 * candidate.x + candidate.w, 2 * candidate.z + candidate.d,
                              candidate, pl[supports[k].idx].box)
      applied == <<>> \o [k \in 1..Len(supports) |->
                           [idx |-> supports[k].idx,
                            added |-> AddedLoad(weight, supports[k].area, base_area)]]
      passes(k) == CrushOk(pl, <<supports[k]>>, weight, base_area)
      through == IF \A k \in 1..Len(supports) : passes(k) THEN Len(supports)
                 ELSE (CHOOSE k \in 1..Len(supports) :
                         ~passes(k) /\ \A j \in 1..(k - 1) : passes(j)) - 1
  IN IF ~centroid_supported \/ ~CoverageOk(supported_area, base_area)
     THEN [ok |-> FALSE, placed |-> pl, applied |-> <<>>]
     ELSE [ok |-> through = Len(supports),
           placed |-> ApplyLoads(pl, SubSeq(applied, 1, through)),
           applied |-> SubSeq(applied, 1, through)]

\* Returns [ok, placed, applied]: the bool returned, the placed vector as the
\* call leaves it, and what it appended to *applied.
SupportCheck(candidate, weight, pl, supports) ==
  LET base_area == Max(kEps, candidate.w * candidate.d)
      cx2 == 2 * candidate.x + candidate.w
      cz2 == 2 * candidate.z + candidate.d
      supported_area == SumSeq([k \in 1..Len(supports) |-> supports[k].area])
      centroid_supported ==
        \E k \in 1..Len(supports) :
          point_in_overlap_xz(cx2, cz2, candidate, pl[supports[k].idx].box)
      applied == <<>> \o [k \in 1..Len(supports) |->
                           [idx |-> supports[k].idx,
                            added |-> AddedLoad(weight, supports[k].area, base_area)]]
      reject == [ok |-> FALSE, placed |-> pl, applied |-> <<>>]
  IN IF ~centroid_supported THEN reject
     ELSE IF ~CoverageOk(supported_area, base_area) THEN reject
     ELSE IF ~CrushOk(pl, supports, weight, base_area) THEN reject
     ELSE Bind(applied, LAMBDA ap :
                 [ok |-> TRUE, placed |-> ApplyLoads(pl, ap), applied |-> ap])

support_ok_and_apply_load(candidate, weight, pl) ==
  IF candidate.y <= kEpsLen THEN [ok |-> TRUE, placed |-> pl, applied |-> <<>>]
  ELSE Bind(SupportsFrom(1, candidate, pl),
            LAMBDA supports : SupportCheck(candidate, weight, pl, supports))

\* placed[idx].load_on_top -= added for every pair of applied.
RECURSIVE rollback_loads(_, _)
rollback_loads(pl, applied) ==
  IF applied = <<>> THEN pl
  ELSE LET a == Head(applied)
       IN rollback_loads([pl EXCEPT ![a.idx].load_on_top = RSub(@, a.added)], Tail(applied))

----------------------------------------------------------------------------
(* Candidate point store *)

Candidate(x, y, z) == [x |-> x, y |-> y, z |-> z]

\* q of unique_candidates: llround(v * 100000.0).
Quant(v) == v * QuantPerUnit

\* key(a) < key(b): the quantized (x, y, z) triples, lexicographically.
KeyLess(a, b) ==
  \/ Quant(a.x) < Quant(b.x)
  \/ (Quant(a.x) = Quant(b.x) /\ Quant(a.y) < Quant(b.y))
  \/ (Quant(a.x) = Quant(b.x) /\ Quant(a.y) = Quant(b.y) /\ Quant(a.z) < Quant(b.z))

KeyEq(a, b) ==
  Quant(a.x) = Quant(b.x) /\ Quant(a.y) = Quant(b.y) /\ Quant(a.z) = Quant(b.z)

\* The comparator of the stable_sort of lines 187-191: y, then z, then x.
YzxLess(a, b) ==
  IF a.y # b.y THEN a.y < b.y
  ELSE IF a.z # b.z THEN a.z < b.z
  ELSE a.x < b.x

\* std::sort by key followed by std::unique by key: one point per key, in key
\* order.  On the grid equal keys mean equal points.
SortByKey(S) ==
  Bind({c \in S : c = (CHOOSE o \in S : KeyEq(o, c))}, LAMBDA U :
    Bind([c \in U |-> Cardinality({o \in U : KeyLess(o, c)})], LAMBDA rank :
      <<>> \o [i \in 1..Cardinality(U) |-> CHOOSE c \in U : rank[c] = i - 1]))

\* std::stable_sort by (y, z, x) of points with pairwise different keys.
SortByYzx(U) ==
  Bind([c \in U |-> Cardinality({o \in U : YzxLess(o, c)})], LAMBDA rank :
    <<>> \o [i \in 1..Cardinality(U) |-> CHOOSE c \in U : rank[c] = i - 1])

\* unique_candidates without the truncation of lines 186-193.
unique_candidates_untrimmed(cands) ==
  Bind(Range(cands), LAMBDA S : SortByKey(S))

unique_candidates(cands) ==
  Bind(Range(cands), LAMBDA S :
    Bind(SortByKey(S), LAMBDA uniq :
      IF Len(uniq) > kMaxCandidates
      THEN Bind(Range(uniq), LAMBDA U : SubSeq(SortByYzx(U), 1, kMaxCandidates))
      ELSE uniq))

\* add_candidate: the point is dropped when a coordinate is below -kEps.
add_candidate(cands, x, y, z) ==
  IF x < -kEpsLen \/ y < -kEpsLen \/ z < -kEpsLen THEN cands
  ELSE Append(cands, Candidate(x, y, z))

----------------------------------------------------------------------------
(* pack_by_order: the candidate sweep for one box *)

\* The 6 orientations, in the order of lines 214-221.
\* The third orientation with the height in two places: (h, h, d).
rots_repeat_height(box) ==
  << <<box.w, box.h, box.d>>, <<box.w, box.d, box.h>>,
     <<box.h, box.h, box.d>>, <<box.h, box.d, box.w>>,
     <<box.d, box.w, box.h>>, <<box.d, box.h, box.w>> >>

rots(box) ==
  << <<box.w, box.h, box.d>>, <<box.w, box.d, box.h>>,
     <<box.h, box.w, box.d>>, <<box.h, box.d, box.w>>,
     <<box.d, box.w, box.h>>, <<box.d, box.h, box.w>> >>

NumRots == 6

\* The comparator that also prefers a candidate at the same point.
better_or_same(a, b) ==
  IF a.y # b.y THEN a.y < b.y
  ELSE IF a.z # b.z THEN a.z < b.z
  ELSE a.x <= b.x

\* better (lines 228-232).
better(a, b) ==
  IF a.y # b.y THEN a.y < b.y
  ELSE IF a.z # b.z THEN a.z < b.z
  ELSE a.x < b.x

\* collides_any looking at the box placed last only.
collides_any_last(a, pl) == pl # <<>> /\ intersects(a, pl[Len(pl)].box)

collides_any(a, pl) == \E i \in 1..Len(pl) : intersects(a, pl[i].box)

\* The pass that leaves the shares of a candidate that passed the kernel but
\* does not beat best applied.
SweepTry_keep_loser(st, candidate, k) ==
  IF ~k.ok THEN [st EXCEPT !.placed = rollback_loads(k.placed, k.applied)]
  ELSE IF ~st.found \/ better(candidate, st.best)
       THEN [placed |-> IF st.found THEN rollback_loads(k.placed, st.best_loads)
                        ELSE k.placed,
             found |-> TRUE,
             best |-> candidate,
             best_loads |-> k.applied]
       ELSE [st EXCEPT !.placed = k.placed]

\* One pass of the inner loop body (lines 238-258) on sweep state st =
\* [placed, found, best, best_loads].
SweepTry(st, candidate, k) ==
  IF ~k.ok THEN [st EXCEPT !.placed = rollback_loads(k.placed, k.applied)]
  ELSE IF ~st.found \/ better(candidate, st.best)
       THEN [placed |-> IF st.found THEN rollback_loads(k.placed, st.best_loads)
                        ELSE k.placed,
             found |-> TRUE,
             best |-> candidate,
             best_loads |-> k.applied]
       ELSE [st EXCEPT !.placed = rollback_loads(k.placed, k.applied)]

SweepOne(st, cand, r, box) ==
  LET candidate == AABB(cand.x, cand.y, cand.z, r[1], r[2], r[3])
  IN IF ~inside_truck(truck, candidate) THEN st
     ELSE IF collides_any(candidate, st.placed) THEN st
     ELSE Bind(support_ok_and_apply_load(candidate, box.weight, st.placed),
               LAMBDA k : SweepTry(st, candidate, k))

\* The loops of lines 236-260 over the (candidate, orientation) pairs lo..hi
\* in turn (the range is taken by halves so that long candidate lists stay
\* within the evaluator's depth).
RECURSIVE SweepFrom(_, _, _, _, _)
SweepFrom(lo, hi, st, cands, box) ==
  IF lo > hi THEN st
  ELSE IF lo = hi
       THEN SweepOne(st, cands[((lo - 1) \div NumRots) + 1],
                     rots(box)[((lo - 1) % NumRots) + 1], box)
       ELSE Bind(SweepFrom(lo, (lo + hi) \div 2, st, cands, box),
                 LAMBDA v : SweepFrom(((lo + hi) \div 2) + 1, hi, v, cands, box))

Sweep(pl, cands, box) ==
  SweepFrom(1, Len(cands) * NumRots,
            [placed |-> pl, found |-> FALSE, best |-> AABB(0, 0, 0, 0, 0, 0),
             best_loads |-> <<>>], cands, box)

----------------------------------------------------------------------------
(* Requests: the trucks, box lists and parameters the model draws from *)

MaxBoxes == 3
MaxGaBoxes == 2
MaxPopulation == 4
MaxGenerations == 2
RawMax == 4
UniRes == 4
NumSeeds == 2

Box(id, w, h, d, weight, priority) ==
  [id |-> id, w |-> w, h |-> h, d |-> d, weight |-> weight, priority |-> priority]
Truck(w, h, d, max_weight) == [w |-> w, h |-> h, d |-> d, max_weight |-> max_weight]

\* Grid L = 1 m, W = 1 kg.
CoarseCatalogue ==
  { Box("A", 2, 1, 2, 10, 1),
    Box("B", 2, 1, 1, 10, 1),
    Box("C", 1, 1, 1, 1, 2),
    Box("D", 1, 1, 1, 50, 1) }
CoarseTrucks ==
  { Truck(2, 2, 2, 100), Truck(2, 2, 2, 12), Truck(1, 3, 1, 100), Truck(0, 2, 2, 100) }

\* Grid L = 1e-5 m, W = 1e-10 kg: boxes of a fraction of a millimetre and a
\* few nanograms, where kEps and the 1e-9 slack are 100 and 10 grid units.
FineCatalogue ==
  { Box("S", 35, 10, 5, 0, 1),
    Box("P", 40, 10, 5, 0, 1),
    Box("T", 40, 10, 5, 48, 1),
    Box("U", 40, 10, 5, 120, 1) }
FineTrucks == { Truck(40, 20, 5, 1000), Truck(40, 30, 5, 130) }

Catalogue(f) == IF f THEN FineCatalogue ELSE CoarseCatalogue
Trucks(f) == IF f THEN FineTrucks ELSE CoarseTrucks
BoxLists(cat, minn, maxn) == UNION {[1..n -> cat] : n \in minn..maxn}
Perms(n) == {o \in [1..n -> 1..n] : \A i, j \in 1..n : o[i] = o[j] => i = j}

\* Scenario S4 on the grid L = 0.25 m, W = 1/16 kg: truck 1x2x1 m with
\* max_weight 10000 kg, a base box 1x1x1 m of 1 kg and four boxes
\* 1x0.25x1 m of 1000 kg.
S4Truck == Truck(4, 8, 4, 160000)
S4Boxes ==
  << Box("base", 4, 4, 4, 16, 1),
     Box("t1", 4, 1, 4, 16000, 1),
     Box("t2", 4, 1, 4, 16000, 1),
     Box("t3", 4, 1, 4, 16000, 1),
     Box("t4", 4, 1, 4, 16000, 1) >>

\* Scenario S5 on the grid L = 1 m, W = 1 kg: truck 10x1x1 with max_weight 3
\* and ten boxes 1x1x1 of weight 1.
S5Truck == Truck(10, 1, 1, 3)
S5Boxes == [i \in 1..10 |-> Box(ToString(i), 1, 1, 1, 1, 1)]
\* The orders of S5 that differ in their first two boxes (the boxes are equal
\* up to their id): a, b, then the others in ascending order.
S5Order(a, b) ==
  <<a, b>> \o SelectSeq([i \in 1..10 |-> i], LAMBDA i : i # a /\ i # b)
S5Orders ==
  {S5Order(x[1], x[2]) : x \in {y \in (1..10) \X (1..10) : y[1] # y[2]}}

\* The requests on which the GA budget is observed, as <<truck, boxes,
\* population, generations>>: lists of n boxes equal up to their id, each too
\* heavy for the truck, for n at and next to the thresholds of lines 315-324,
\* with a requested population or generations next to the caps; small
\* requests with requests below, at and above the caps of the last branch,
\* one of them with scores that differ between orders;
\* and requests the bindings pass on as they come (lines 12-62): a negative
\* population and generations, a truck with a zero extent, a truck with
\* max_weight 0, a box with a zero extent.
Heavy(n) == [i \in 1..n |-> Box(ToString(i), 1, 1, 1, 50, 1)]
Cubes(n) == [i \in 1..n |-> Box(ToString(i), 1, 1, 1, 1, 2)]
\* Two boxes of which the heavy one cannot rest on the light one, so that the
\* score depends on the order.
LightHeavy == << Box("1", 1, 1, 1, 1, 2), Box("2", 1, 1, 1, 50, 1) >>
BudgetRequests ==
  { <<Truck(2, 2, 2, 12), Heavy(251), 11, 0>>,
    <<Truck(2, 2, 2, 12), Heavy(251), 0, 7>>,
    <<Truck(2, 2, 2, 12), Heavy(250), 11, 0>>,
    <<Truck(2, 2, 2, 12), Heavy(250), 0, 7>>,
    <<Truck(2, 2, 2, 12), Heavy(151), 19, 0>>,
    <<Truck(2, 2, 2, 12), Heavy(151), 0, 13>>,
    <<Truck(2, 2, 2, 12), Heavy(150), 19, 0>>,
    <<Truck(2, 2, 2, 12), Heavy(150), 0, 13>>,
    <<Truck(1, 3, 1, 51), Cubes(4), 31, 0>>,
    <<Truck(1, 3, 1, 51), Cubes(4), 5, 26>>,
    <<Truck(1, 3, 1, 51), Cubes(1), 30, 25>>,
    <<Truck(1, 3, 1, 51), LightHeavy, 30, 2>>,
    <<Truck(1, 3, 1, 51), Heavy(2), -1, -1>>,
    <<Truck(0, 2, 2, 100), Cubes(1), 0, 0>>,
    <<Truck(1, 3, 1, 0), Cubes(1), 0, 0>>,
    <<Truck(1, 3, 1, 51), <<Box("Z", 0, 1, 1, 1, 1)>>, 0, 0>>,
    <<Truck(1, 3, 1, 51), <<>>, 40, 40>> }

\* A request on which the kernel meets two supports of which the second
\* fails its crush check: in a truck 2x2x1, D and C side by side on the floor
\* and X, 2x1x1 of weight 20, tried across both; C can carry 6.
TwoSupportTruck == Truck(2, 2, 1, 100)
TwoSupportBoxes ==
  << Box("D", 1, 1, 1, 50, 1), Box("C", 1, 1, 1, 1, 2), Box("X", 2, 1, 1, 20, 1) >>

\* A request on the fine grid with an overlap that is positive and not above
\* kEps: S (35x10x5) and V (5x10x5) side by side on the floor of a truck
\* 40x30x5 and T (40x10x5, weight 48) across both; T covers 175 of S and 25
\* of V, and 25 grid areas are 2.5e-9 m^2.
SliverTruck == Truck(40, 30, 5, 1000)
SliverBoxes ==
  << Box("S", 35, 10, 5, 0, 1), Box("V", 5, 10, 5, 0, 1), Box("T", 40, 10, 5, 48, 1) >>

\* A request that fills the candidate store: a truck 120x1x1 with max_weight
\* 118 and 118 boxes 1x1x1 of weight 1, which line up along x and leave three
\* new points each, then a box 2x2x2 of weight 0, which fits nowhere, and a
\* box 1x1x1 of weight 1, for which no weight is left.
RowTruck == Truck(120, 1, 1, 118)
RowBoxes ==
  Cubes(118) \o << Box("big", 2, 2, 2, 0, 1), Box("last", 1, 1, 1, 1, 1) >>

\* The requests of the GA specifications.
GaCatalogue(f) ==
  IF f THEN { Box("S", 35, 10, 5, 0, 1), Box("T", 40, 10, 5, 48, 1) }
  ELSE { Box("C", 1, 1, 1, 1, 2), Box("D", 1, 1, 1, 50, 1) }
GaTrucks(f) ==
  IF f THEN { Truck(40, 20, 5, 1000) }
  ELSE { Truck(1, 3, 1, 51) }
PopulationRequests == {0, MaxPopulation}
GenerationRequests == {0, MaxGenerations}
MutationRates == {UniRes \div 2}

----------------------------------------------------------------------------
(* The random stream *)

\* The words std::mt19937 yields are abstracted to 0..RawMax-1.  With seed = -1
\* the stream is left open: every draw may yield every word.  With seed >= 0
\* the stream is a fixed function of the seed and the position in the stream.
Raw == 0..(RawMax - 1)
Seeded == seed >= 0
Stream(sd, k) ==
  (((sd + 2) * (sd + 2) * (sd + 2) * (k + 1) + ((k * k * (sd + 1)) \div 3)) % 29) % RawMax

\* A stream seeded per call: run r reads the stream of seed + r.
DrawVecs_per_call(r, m) ==
  IF Seeded THEN {[k \in 1..m |-> Stream(seed + r, rngpos[r] + k - 1)]}
  ELSE [1..m -> Raw]

\* One stream shared by the calls: every run reads on from where run 1 is.
DrawVecs_shared(r, m) ==
  IF Seeded THEN {[k \in 1..m |-> Stream(seed, rngpos[1] + k - 1)]}
  ELSE [1..m -> Raw]

\* The next m words rng yields to run r.
DrawVecs(r, m) ==
  IF Seeded THEN {[k \in 1..m |-> Stream(seed, rngpos[r] + k - 1)]}
  ELSE [1..m -> Raw]

\* rng after run r drew m words.
Drawn(r, m) == IF Seeded THEN [rngpos EXCEPT ![r] = @ + m] ELSE rngpos

\* std::uniform_int_distribution(a, b) applied to the word w.
uniform_int(a, b, w) == a + (w % (b - a + 1))

----------------------------------------------------------------------------
(* pack_by_order *)

Placement(id, b) ==
  [id |-> id, x |-> b.x, y |-> b.y, z |-> b.z, w |-> b.w, h |-> b.h, d |-> b.d]

PlacedState(b, id, weight, max_load, load_on_top) ==
  [box |-> b, id |-> id, weight |-> weight, max_load |-> max_load,
   load_on_top |-> load_on_top]

total_volume_of(bs) ==
  SumSeq([i \in 1..Len(bs) |-> volume(bs[i].w, bs[i].h, bs[i].d)])

\* Lines 154-160: result.utilization is not assigned before line 281 and not
\* read before; the model holds 0 there.
EmptyResult(bs) ==
  [placed |-> <<>>, unplaced |-> <<>>, used_volume |-> 0,
   total_volume |-> total_volume_of(bs), utilization |-> RInt(0), total_weight |-> 0]

\* Lines 154-167 and 196: run r enters pack_by_order(truck, boxes, o).
PackEntry(r, o) ==
  /\ order' = [order EXCEPT ![r] = o]
  /\ pos' = [pos EXCEPT ![r] = 1]
  /\ placed' = [placed EXCEPT ![r] = <<>>]
  /\ candidates' = [candidates EXCEPT ![r] = <<Candidate(0, 0, 0)>>]
  /\ remaining_weight' = [remaining_weight EXCEPT ![r] = truck.max_weight]
  /\ result' = [result EXCEPT ![r] = EmptyResult(boxes)]

InLoop(r) == pc[r] = "pack" /\ pos[r] <= Len(order[r])
CurBox(r) == boxes[order[r][pos[r]]]
\* The weight test against the truck's cap instead of what is left of it.
Overweight_total(r, box) == box.weight > truck.max_weight + kSlack

\* The weight test that also turns away a box of exactly the weight left.
Overweight_at_cap(r, box) == box.weight >= remaining_weight[r] + kSlack

Overweight(r, box) == box.weight > remaining_weight[r] + kSlack

\* Lines 208-211: the box is heavier than what the truck can still take.
PackSkipOverweight(r) ==
  /\ InLoop(r)
  /\ Overweight(r, CurBox(r))
  /\ result' = [result EXCEPT ![r].unplaced = Append(@, CurBox(r).id)]
  /\ pos' = [pos EXCEPT ![r] = @ + 1]
  /\ UNCHANGED <<inputVars, viewVars, playVars, gaVars, pc, ret, order, placed, candidates, remaining_weight>>

\* Lines 234-265: the sweep finds no placement.
PackUnplaced(r) ==
  /\ InLoop(r)
  /\ ~Overweight(r, CurBox(r))
  /\ \E cands \in {unique_candidates(candidates[r])} :
     \E sw \in {Sweep(placed[r], cands, CurBox(r))} :
        /\ ~sw.found
        /\ candidates' = [candidates EXCEPT ![r] = cands]
        /\ placed' = [placed EXCEPT ![r] = sw.placed]
        /\ result' = [result EXCEPT ![r].unplaced = Append(@, CurBox(r).id)]
  /\ pos' = [pos EXCEPT ![r] = @ + 1]
  /\ UNCHANGED <<inputVars, viewVars, playVars, gaVars, pc, ret, order, remaining_weight>>

\* The accepted box given a load limit that grows with its priority.
AcceptPlaced_by_priority(pl, best, box) ==
  Append(pl, PlacedState(best, box.id, box.weight,
                         max_load_for(box.weight * box.priority, best.w * best.d),
                         RInt(0)))

\* Lines 268-278: what accepting best for box adds to the state.
AcceptPlaced(pl, best, box) ==
  Append(pl, PlacedState(best, box.id, box.weight,
                         max_load_for(box.weight, best.w * best.d), RInt(0)))

\* The accepted box counted in the metrics but not pushed to result.placed.
AcceptResult_unlisted(res, best, box) ==
  [res EXCEPT !.used_volume = @ + volume(best.w, best.h, best.d),
              !.total_weight = @ + box.weight]

\* The accepted box put in front of result.placed instead of behind.
AcceptResult_front(res, best, box) ==
  [res EXCEPT !.placed = <<Placement(box.id, best)>> \o @,
              !.used_volume = @ + volume(best.w, best.h, best.d),
              !.total_weight = @ + box.weight]

AcceptResult(res, best, box) ==
  [res EXCEPT !.placed = Append(@, Placement(box.id, best)),
              !.used_volume = @ + volume(best.w, best.h, best.d),
              !.total_weight = @ + box.weight]

\* The point along x taken two widths from the origin of the box.
AcceptCandidates_far(cands, best) ==
  add_candidate(
    add_candidate(
      add_candidate(cands, best.x + 2 * best.w, best.y, best.z),
      best.x, best.y, best.z + best.d),
    best.x, best.y + best.h, best.z)

AcceptCandidates(cands, best) ==
  add_candidate(
    add_candidate(
      add_candidate(cands, best.x + best.w, best.y, best.z),
      best.x, best.y, best.z + best.d),
    best.x, best.y + best.h, best.z)

\* Lines 234-278: the sweep finds a placement, which is accepted.
PackAccept(r) ==
  /\ InLoop(r)
  /\ ~Overweight(r, CurBox(r))
  /\ \E cands \in {unique_candidates(candidates[r])} :
     \E sw \in {Sweep(placed[r], cands, CurBox(r))} :
        /\ sw.found
        /\ placed' = [placed EXCEPT ![r] = AcceptPlaced(sw.placed, sw.best, CurBox(r))]
        /\ result' = [result EXCEPT ![r] = AcceptResult(@, sw.best, CurBox(r))]
        /\ remaining_weight' = [remaining_weight EXCEPT ![r] = @ - CurBox(r).weight]
        /\ candidates' = [candidates EXCEPT ![r] = AcceptCandidates(cands, sw.best)]
  /\ pos' = [pos EXCEPT ![r] = @ + 1]
  /\ UNCHANGED <<inputVars, viewVars, playVars, gaVars, pc, ret, order>>

\* The utilization taken over the volume of the boxes instead of the truck's.
Utilization_of_boxes(r_) ==
  IF r_.total_volume > 0 THEN Rat(r_.used_volume, r_.total_volume) ELSE RInt(0)

\* Line 281.
Utilization(r_) ==
  IF (truck.w * truck.h * truck.d) > 0
  THEN Rat(r_.used_volume, truck.w * truck.h * truck.d)
  ELSE RInt(0)

\* Lines 281-282: the Result as returned.
Returned(r_) == [r_ EXCEPT !.utilization = Utilization(r_)]

AtReturn(r) == pc[r] = "pack" /\ pos[r] > Len(order[r])

\* Line 282: the locals of pack_by_order end with the call.
PackExit(r) ==
  /\ order' = [order EXCEPT ![r] = <<>>]
  /\ pos' = [pos EXCEPT ![r] = 1]
  /\ placed' = [placed EXCEPT ![r] = <<>>]
  /\ candidates' = [candidates EXCEPT ![r] = <<>>]
  /\ remaining_weight' = [remaining_weight EXCEPT ![r] = 0]

\* pack_by_order returns to a caller that evaluates one given permutation.
PackReturn(r) ==
  /\ AtReturn(r)
  /\ ret[r] = "direct"
  /\ result' = [result EXCEPT ![r] = Returned(@)]
  /\ PackExit(r)
  /\ pc' = [pc EXCEPT ![r] = "done"]
  /\ UNCHANGED <<inputVars, viewVars, playVars, gaVars, ret>>

----------------------------------------------------------------------------
(* optimize_ga *)

score_result(res) ==
  RSub(Rat(res.utilization.n * 100, res.utilization.d), Rat(Len(res.unplaced), 2))

Individual(o, sc, res) == [order |-> o, score |-> sc, result |-> res]

\* The population capped at 30 whatever the number of boxes.
CappedPopulation_one_tier(n, p) == Max(Min(p, 30), 4)

\* Lines 315-324 and 349-350.
CappedPopulation(n, p) ==
  Max(IF n > 250 THEN Min(p, 10) ELSE IF n > 150 THEN Min(p, 18) ELSE Min(p, 30), 4)
CappedGenerations(n, g) ==
  Max(IF n > 250 THEN Min(g, 6) ELSE IF n > 150 THEN Min(g, 12) ELSE Min(g, 25), 1)

\* The 1e-12 of line 340, a volume: 1000 grid units on the fine grid.
kVolTol == IF fine THEN 1000 ELSE 0

\* The comparator with the lower priority first among equal volumes.
HeurLess_low_priority(bs, a, b) ==
  LET va == volume(bs[a].w, bs[a].h, bs[a].d)
      vb == volume(bs[b].w, bs[b].h, bs[b].d)
  IN IF Abs(va - vb) > kVolTol THEN va > vb
     ELSE bs[a].priority < bs[b].priority

\* The comparator of lines 335-342 on box indices a, b.
HeurLess(bs, a, b) ==
  LET va == volume(bs[a].w, bs[a].h, bs[a].d)
      vb == volume(bs[b].w, bs[b].h, bs[b].d)
  IN IF Abs(va - vb) > kVolTol THEN va > vb
     ELSE bs[a].priority > bs[b].priority

\* x inserted into the sorted sequence srt behind every element it is not
\* less than (a stable insertion).
InsertSorted(bs, srt, x) ==
  LET m == CHOOSE t \in 0..Len(srt) :
             /\ \A j \in (Len(srt) - t + 1)..Len(srt) : HeurLess(bs, x, srt[j])
             /\ (t < Len(srt) => ~HeurLess(bs, x, srt[Len(srt) - t]))
      k == Len(srt) - m
  IN SubSeq(srt, 1, k) \o <<x>> \o SubSeq(srt, k + 1, Len(srt))

\* std::stable_sort of base = 0..n-1 by HeurLess (lines 335-342): the indices
\* lo..hi inserted one after the other into srt (the range is taken by halves
\* so that long lists stay within the evaluator's depth).
RECURSIVE HeuristicFrom(_, _, _, _)
HeuristicFrom(bs, srt, lo, hi) ==
  IF lo > hi THEN srt
  ELSE IF lo = hi THEN InsertSorted(bs, srt, lo)
  ELSE Bind(HeuristicFrom(bs, srt, lo, (lo + hi) \div 2),
            LAMBDA v : HeuristicFrom(bs, v, ((lo + hi) \div 2) + 1, hi))

HeuristicOrder(bs) == HeuristicFrom(bs, <<>>, 1, Len(bs))

Swap(o, a, b) == [o EXCEPT ![a] = o[b], ![b] = o[a]]

\* std::shuffle (line 332): position i is swapped with a position drawn
\* uniformly from those up to i, one word of the stream each, for i from lo
\* to hi in turn (the range is taken by halves so that long lists stay within
\* the evaluator's depth).
RECURSIVE ShuffleFrom(_, _, _, _)
ShuffleFrom(o, lo, hi, ws) ==
  IF lo > hi THEN o
  ELSE IF lo = hi THEN Bind(o, LAMBDA v : Swap(v, lo, uniform_int(1, lo, ws[lo - 1])))
  ELSE Bind(ShuffleFrom(o, lo, (lo + hi) \div 2, ws),
            LAMBDA v : ShuffleFrom(v, ((lo + hi) \div 2) + 1, hi, ws))

Shuffle(n, ws) == ShuffleFrom([i \in 1..n |-> i], 2, n, ws)

\* std::sort by score descending (lines 408, 429).  The order it leaves equal
\* scores in is unspecified: the build keeps their order or reverses it.
SortBefore(p, i, j) ==
  \/ RLess(p[j].score, p[i].score)
  \/ (p[i].score = p[j].score /\ (IF sort_keeps_ties THEN i < j ELSE i > j))

SortPop(p) ==
  <<>> \o [k \in 1..Len(p) |->
            p[CHOOSE i \in 1..Len(p) :
                Cardinality({j \in 1..Len(p) : SortBefore(p, j, i)}) = k - 1]]

\* The tournament in which a later draw of the same score takes over.
TournamentStep_last(p, best, cand) ==
  IF best = 0 \/ ~RLess(p[cand].score, p[best].score) THEN cand ELSE best

\* select_parent (lines 359-368) on the three words ws: the index of *best.
TournamentStep(p, best, cand) ==
  IF best = 0 \/ RLess(p[best].score, p[cand].score) THEN cand ELSE best

select_parent(p, popsize, ws) ==
  LET c1 == uniform_int(0, popsize - 1, ws[1]) + 1
      c2 == uniform_int(0, popsize - 1, ws[2]) + 1
      c3 == uniform_int(0, popsize - 1, ws[3]) + 1
  IN TournamentStep(p, TournamentStep(p, TournamentStep(p, 0, c1), c2), c3)

\* static_cast<size_t>(-1), the mark of an unfilled child position; box
\* indices are 1..n here.
Unfilled == 0

\* The crossover that fills the positions outside the cut with b's genes at
\* the same positions.
crossover_in_place(a, b, wi, wj) ==
  LET ci == uniform_int(0, Len(a) - 1, wi)
      cj == uniform_int(0, Len(a) - 1, wj)
  IN [k \in 1..Len(a) |->
        IF k >= Min(ci, cj) + 1 /\ k <= Max(ci, cj) + 1 THEN a[k] ELSE b[k]]

\* crossover (lines 370-397) with cut words wi, wj.
crossover(a, b, wi, wj) ==
  LET n == Len(a)
      ci == uniform_int(0, n - 1, wi)
      cj == uniform_int(0, n - 1, wj)
      i == Min(ci, cj) + 1
      j == Max(ci, cj) + 1
      used == {a[k] : k \in i..j}
      rest == SelectSeq(b, LAMBDA g : g \notin used)
      free == SelectSeq([k \in 1..n |-> k], LAMBDA k : k < i \/ k > j)
      slot(k) == CHOOSE t \in 1..Len(free) : free[t] = k
  IN [k \in 1..n |->
        IF k >= i /\ k <= j THEN a[k]
        ELSE IF slot(k) <= Len(rest) THEN rest[slot(k)] ELSE Unfilled]

\* The mutation that copies one position over the other instead of swapping.
mutate_copy(o, ws) ==
  IF (ws[1] % UniRes) > mutation_rate THEN [order |-> o, drawn |-> 1]
  ELSE [order |-> [o EXCEPT ![uniform_int(0, Len(o) - 1, ws[2]) + 1] =
                              o[uniform_int(0, Len(o) - 1, ws[3]) + 1]],
        drawn |-> 3]

\* mutate (lines 399-405) with words ws: [order, drawn].
mutate(o, ws) ==
  IF (ws[1] % UniRes) > mutation_rate THEN [order |-> o, drawn |-> 1]
  ELSE [order |-> Swap(o, uniform_int(0, Len(o) - 1, ws[2]) + 1,
                          uniform_int(0, Len(o) - 1, ws[3]) + 1),
        drawn |-> 3]

\* The Result of an empty request with the truck's volume as total_volume.
ZeroResult_truck_volume ==
  [placed |-> <<>>, unplaced |-> <<>>, used_volume |-> 0,
   total_volume |-> truck.w * truck.h * truck.d, utilization |-> RInt(0),
   total_weight |-> 0]

\* Lines 300-305: a default-constructed Result with its four numbers zeroed.
ZeroResult ==
  [placed |-> <<>>, unplaced |-> <<>>, used_volume |-> 0,
   total_volume |-> 0, utilization |-> RInt(0), total_weight |-> 0]

\* Lines 299-306.
GaEmpty(r) ==
  /\ pc[r] = "start"
  /\ boxes = <<>>
  /\ result' = [result EXCEPT ![r] = ZeroResult]
  /\ pc' = [pc EXCEPT ![r] = "done"]
  /\ UNCHANGED <<inputVars, viewVars, playVars, gaVars, ret, order, pos, placed, candidates, remaining_weight>>

\* Lines 308-354, up to the call of pack_by_order for individual 0.
GaSeed(r) ==
  /\ pc[r] = "start"
  /\ boxes # <<>>
  /\ population' = [population EXCEPT ![r] = CappedPopulation(Len(boxes), @)]
  /\ generations' = [generations EXCEPT ![r] = CappedGenerations(Len(boxes), @)]
  /\ PackEntry(r, HeuristicOrder(boxes))
  /\ ret' = [ret EXCEPT ![r] = "seed"]
  /\ pc' = [pc EXCEPT ![r] = "pack"]
  /\ UNCHANGED <<inputVars, viewVars, playVars, pop, next, gen, p1, p2, child, rngpos, score0>>

\* Lines 281-282 and 344-357: pack_by_order returns into make_individual,
\* whose individual is pushed to pop.
PackReturnInit(r) ==
  /\ AtReturn(r)
  /\ ret[r] \in {"seed", "shuffle"}
  /\ \E res \in {Returned(result[r])} :
       /\ pop' = [pop EXCEPT ![r] = Append(@, Individual(order[r], score_result(res), res))]
       /\ result' = [result EXCEPT ![r] = res]
       /\ score0' = IF ret[r] = "seed" THEN [score0 EXCEPT ![r] = score_result(res)]
                    ELSE score0
  /\ PackExit(r)
  /\ pc' = [pc EXCEPT ![r] = IF Len(pop[r]) + 1 < population[r] THEN "fill" ELSE "loop"]
  /\ UNCHANGED <<inputVars, viewVars, playVars, ret, population, generations, next, gen, p1, p2, child, rngpos>>

\* Lines 355-356: make_individual(true) up to the call of pack_by_order.
GaShuffle(r) ==
  /\ pc[r] = "fill"
  /\ \E ws \in DrawVecs(r, Len(boxes) - 1) :
       PackEntry(r, Shuffle(Len(boxes), ws))
  /\ rngpos' = Drawn(r, Len(boxes) - 1)
  /\ ret' = [ret EXCEPT ![r] = "shuffle"]
  /\ pc' = [pc EXCEPT ![r] = "pack"]
  /\ UNCHANGED <<inputVars, viewVars, playVars, population, generations, pop, next, gen, p1, p2, child, score0>>

\* No individual carried over.
elite_none(popsize) == 0

\* One individual carried over whatever the population.
elite_single(popsize) == Min(popsize, 1)

\* Line 411.
elite(popsize) == Max(1, popsize \div 10)

\* Lines 407-414: a generation starts; population >= 4 leaves room for
\* offspring behind the elite.
GenStart(r) ==
  /\ pc[r] = "loop"
  /\ gen[r] < generations[r]
  /\ \E sorted \in {SortPop(pop[r])} :
       /\ pop' = [pop EXCEPT ![r] = sorted]
       /\ next' = [next EXCEPT ![r] = SubSeq(sorted, 1, elite(population[r]))]
  /\ pc' = [pc EXCEPT ![r] = "select1"]
  /\ UNCHANGED <<inputVars, viewVars, playVars, ret, packVars, population, generations, gen, p1, p2, child,
                 rngpos, score0>>

\* Line 417.
SelectParent1(r) ==
  /\ pc[r] = "select1"
  /\ \E ws \in DrawVecs(r, 3) :
       p1' = [p1 EXCEPT ![r] = select_parent(pop[r], population[r], ws)]
  /\ rngpos' = Drawn(r, 3)
  /\ pc' = [pc EXCEPT ![r] = "select2"]
  /\ UNCHANGED <<inputVars, viewVars, playVars, ret, packVars, population, generations, pop, next, gen, p2,
                 child, score0>>

\* Line 418.
SelectParent2(r) ==
  /\ pc[r] = "select2"
  /\ \E ws \in DrawVecs(r, 3) :
       p2' = [p2 EXCEPT ![r] = select_parent(pop[r], population[r], ws)]
  /\ rngpos' = Drawn(r, 3)
  /\ pc' = [pc EXCEPT ![r] = "cross"]
  /\ UNCHANGED <<inputVars, viewVars, playVars, ret, packVars, population, generations, pop, next, gen, p1,
                 child, score0>>

\* Line 419; p1 and p2 are not used after it.
Crossover(r) ==
  /\ pc[r] = "cross"
  /\ \E ws \in DrawVecs(r, 2) :
       child' = [child EXCEPT ![r] =
                   crossover(pop[r][p1[r]].order, pop[r][p2[r]].order, ws[1], ws[2])]
  /\ rngpos' = Drawn(r, 2)
  /\ p1' = [p1 EXCEPT ![r] = 0]
  /\ p2' = [p2 EXCEPT ![r] = 0]
  /\ pc' = [pc EXCEPT ![r] = "mutate"]
  /\ UNCHANGED <<inputVars, viewVars, playVars, ret, packVars, population, generations, pop, next, gen, score0>>

\* Lines 420-421, up to the call of pack_by_order for the child.
Mutate(r) ==
  /\ pc[r] = "mutate"
  /\ \E ws \in DrawVecs(r, 3) :
     \E m \in {mutate(child[r], ws)} :
       /\ child' = [child EXCEPT ![r] = m.order]
       /\ PackEntry(r, m.order)
       /\ rngpos' = Drawn(r, m.drawn)
  /\ ret' = [ret EXCEPT ![r] = "child"]
  /\ pc' = [pc EXCEPT ![r] = "pack"]
  /\ UNCHANGED <<inputVars, viewVars, playVars, population, generations, pop, next, gen, p1, p2, score0>>

\* Lines 281-282 and 421-426: pack_by_order returns the child's Result; the
\* child is pushed to next, and the last child of a generation ends it.
PackReturnChild(r) ==
  /\ AtReturn(r)
  /\ ret[r] = "child"
  /\ \E res \in {Returned(result[r])} :
     \E nx \in {Append(next[r], Individual(child[r], score_result(res), res))} :
       /\ result' = [result EXCEPT ![r] = res]
       /\ IF Len(nx) < population[r]
          THEN /\ next' = [next EXCEPT ![r] = nx]
               /\ pc' = [pc EXCEPT ![r] = "select1"]
               /\ UNCHANGED <<pop, gen>>
          ELSE /\ pop' = [pop EXCEPT ![r] = nx]
               /\ next' = [next EXCEPT ![r] = <<>>]
               /\ gen' = [gen EXCEPT ![r] = @ + 1]
               /\ pc' = [pc EXCEPT ![r] = "loop"]
  /\ child' = [child EXCEPT ![r] = <<>>]
  /\ PackExit(r)
  /\ UNCHANGED <<inputVars, viewVars, playVars, ret, population, generations, p1, p2, rngpos, score0>>

\* Lines 429-430.
GaFinish(r) ==
  /\ pc[r] = "loop"
  /\ gen[r] >= generations[r]
  /\ \E sorted \in {SortPop(pop[r])} :
       /\ pop' = [pop EXCEPT ![r] = sorted]
       /\ result' = [result EXCEPT ![r] = sorted[1].result]
  /\ pc' = [pc EXCEPT ![r] = "done"]
  /\ UNCHANGED <<inputVars, viewVars, playVars, ret, order, pos, placed, candidates, remaining_weight,
                 population, generations, next, gen, p1, p2, child, rngpos, score0>>

----------------------------------------------------------------------------
(* The viewer: buildSupportAwareLoadOrder of App.jsx *)

\* The viewer's lengths are whole multiples of 1e-7 m, so that yEps = 1e-6 m
\* is 10, minSupportArea = 1e-10 m^2 is 10000, a millimetre is ViewMm and a
\* centimetre is ViewCm.
yEps == 10
minSupportArea == 10000
ViewMm == 10000
ViewCm == 100000

\* Math.round of the quotient a / b of non-negative numbers: halves go up.
MathRound(a, b) == (2 * a + b) \div (2 * b)

\* toMicro (lines 20-22): Math.round(value * 1e6).
toMicro(value) == MathRound(value, 10)

\* A placement of the response: id, position and oriented extents.
Placed(id, x, y, z, w, h, d) ==
  [id |-> id, x |-> x, y |-> y, z |-> z, w |-> w, h |-> h, d |-> d]

overlap1d(a0, a1, b0, b1) == Max(0, Min(a1, b1) - Max(a0, b0))

overlapAreaXZ(top, bottom) ==
  overlap1d(top.x, top.x + top.w, bottom.x, bottom.x + bottom.w)
    * overlap1d(top.z, top.z + top.d, bottom.z, bottom.z + bottom.d)

\* The ids of the viewer's placements in the order of localeCompare.
ViewIds == <<"a", "b", "c", "d", "e", "f">>
localeCompare(a, b) ==
  (CHOOSE k \in 1..Len(ViewIds) : ViewIds[k] = a)
    - (CHOOSE k \in 1..Len(ViewIds) : ViewIds[k] = b)

\* rank (lines 40-51); a placement of the engine has no weight, so that
\* box.weight ?? -1 is -1.
rank(box) ==
  [z |-> toMicro(box.z), y |-> toMicro(box.y), x |-> toMicro(box.x),
   serpentineFlip |-> (MathRound(box.z, ViewCm) % 2) = 1, weight |-> -1,
   id |-> box.id]

\* compareRank (lines 53-59): negative when a comes first.
compareRank(a, b) ==
  IF a.z # b.z THEN b.z - a.z
  ELSE IF a.y # b.y THEN a.y - b.y
  ELSE IF a.x # b.x THEN (IF a.serpentineFlip THEN b.x - a.x ELSE a.x - b.x)
  ELSE IF a.weight # b.weight THEN b.weight - a.weight
  ELSE localeCompare(a.id, b.id)

\* Lines 64-79: items[bottomIndex] supports items[topIndex].
ViewEdge(its, bottomIndex, topIndex) ==
  /\ bottomIndex # topIndex
  /\ its[topIndex].y > yEps
  /\ ~ (Abs((its[bottomIndex].y + its[bottomIndex].h) - its[topIndex].y) > yEps)
  /\ ~ (overlapAreaXZ(its[topIndex], its[bottomIndex]) <= minSupportArea)

\* adjacency[bottomIndex]: the indices it supports, in the order pushed.
adjacency(its, bottomIndex) ==
  SelectSeq([i \in 1..Len(its) |-> i], LAMBDA t : ViewEdge(its, bottomIndex, t))

\* Every index counted as free of supports.
InitialInDegree_none(its) == [t \in 1..Len(its) |-> 0]

\* inDegree after the loops of lines 64-79.
InitialInDegree(its) ==
  [t \in 1..Len(its) |-> Cardinality({b \in 1..Len(its) : ViewEdge(its, b, t)})]

\* takeNext (lines 88-95): the scan for bestPos from position i on.
RECURSIVE ScanBest(_, _, _, _)
ScanBest(its, av, i, bestPos) ==
  IF i > Len(av) THEN bestPos
  ELSE ScanBest(its, av, i + 1,
                IF compareRank(rank(its[av[i]]), rank(its[av[bestPos]])) < 0
                THEN i ELSE bestPos)

\* items.sort by compareRank (line 107), a stable sort.
SortByRank(its) ==
  [k \in 1..Len(its) |->
     its[CHOOSE i \in 1..Len(its) :
           Cardinality({j \in 1..Len(its) :
                          \/ compareRank(rank(its[j]), rank(its[i])) < 0
                          \/ /\ compareRank(rank(its[j]), rank(its[i])) = 0
                             /\ j < i}) = k - 1]]

\* Lines 35-85: the copy, the support graph and the first available indices.
BuildStart ==
  /\ vpc = "start"
  /\ inDegree' = InitialInDegree(items)
  /\ available' = SelectSeq([i \in 1..Len(items) |-> i],
                            LAMBDA i : InitialInDegree(items)[i] = 0)
  /\ orderedIndices' = <<>>
  /\ vpc' = "loop"
  /\ UNCHANGED <<inputVars, pc, ret, packVars, gaVars, playVars, items, placedView>>

\* Lines 97-104: one pass of the while loop.
TakeNext ==
  /\ vpc = "loop"
  /\ available # <<>>
  /\ \E bestPos \in {ScanBest(items, available, 2, 1)} :
     \E current \in {available[bestPos]} :
     \E deps \in {adjacency(items, current)} :
       /\ orderedIndices' = Append(orderedIndices, current)
       /\ inDegree' = [t \in 1..Len(items) |->
                         IF \E k \in 1..Len(deps) : deps[k] = t
                         THEN inDegree[t] - 1 ELSE inDegree[t]]
       /\ available' =
            SubSeq(available, 1, bestPos - 1)
              \o SubSeq(available, bestPos + 1, Len(available))
              \o SelectSeq(deps, LAMBDA t : inDegree[t] - 1 = 0)
  /\ UNCHANGED <<inputVars, pc, ret, packVars, gaVars, playVars, vpc, items, placedView>>

\* Lines 106-111: the list returned; when indices are left over, the items
\* sorted by rank alone.
BuildReturn ==
  /\ vpc = "loop"
  /\ available = <<>>
  /\ placedView' =
       IF Len(orderedIndices) # Len(items) THEN SortByRank(items)
       ELSE [k \in 1..Len(items) |-> items[orderedIndices[k]]]
  /\ vpc' = "done"
  /\ UNCHANGED <<inputVars, pc, ret, packVars, gaVars, playVars, items, inDegree, available,
                 orderedIndices>>

\* No call of buildSupportAwareLoadOrder is under way.
ViewIdle ==
  /\ vpc = "none" /\ items = <<>> /\ inDegree = <<>> /\ available = <<>>
  /\ orderedIndices = <<>> /\ placedView = <<>>

----------------------------------------------------------------------------
(* The playback of App.jsx *)

\* The state of App after mounting: nothing revealed, paused, no request.
PlayIdle ==
  /\ visibleCount = 0 /\ isPlaying = FALSE /\ busy = FALSE
  /\ timer = FALSE /\ effectDue = FALSE /\ userPresent = FALSE

\* disabled={!placedView.length || busy} of the four playback buttons.
ButtonsEnabled == Len(placedView) # 0 /\ ~busy

\* The render that follows the last state change is finished: placedView is
\* the list built from placed.
Rendered == vpc = "done"

\* Lines 200-203: the click on Optimizar up to the await.
onOptimizeCall ==
  /\ userPresent /\ Rendered /\ ~busy
  /\ busy' = TRUE
  /\ UNCHANGED <<inputVars, pc, ret, packVars, gaVars, viewVars,
                 visibleCount, isPlaying, timer, effectDue, userPresent>>

\* Lines 205-212 and 217: the result out arrives; placed is set, and the
\* render that follows builds placedView from it.
onOptimizeResult(out) ==
  /\ Rendered /\ busy
  /\ items' = out
  /\ vpc' = "start"
  /\ visibleCount' = 0
  /\ isPlaying' = TRUE
  /\ busy' = FALSE
  /\ effectDue' = TRUE
  /\ UNCHANGED <<inputVars, pc, ret, packVars, gaVars, inDegree, available,
                 orderedIndices, placedView, timer, userPresent>>

\* Lines 213-217: the request fails.
onOptimizeError ==
  /\ Rendered /\ busy
  /\ busy' = FALSE
  /\ UNCHANGED <<inputVars, pc, ret, packVars, gaVars, viewVars,
                 visibleCount, isPlaying, timer, effectDue, userPresent>>

\* Lines 159-172: the effect runs after a render in which isPlaying,
\* visibleCount or placedView changed; the timeout of its last run is
\* cleared first (line 171).
PlaybackEffect ==
  /\ Rendered /\ effectDue
  /\ IF ~isPlaying THEN
       /\ timer' = FALSE /\ effectDue' = FALSE /\ UNCHANGED isPlaying
     ELSE IF Len(placedView) = 0 THEN
       /\ timer' = FALSE /\ effectDue' = FALSE /\ UNCHANGED isPlaying
     ELSE IF visibleCount >= Len(placedView) THEN
       /\ isPlaying' = FALSE /\ timer' = FALSE /\ effectDue' = TRUE
     ELSE
       /\ timer' = TRUE /\ effectDue' = FALSE /\ UNCHANGED isPlaying
  /\ UNCHANGED <<inputVars, pc, ret, packVars, gaVars, viewVars,
                 visibleCount, busy, userPresent>>

\* Lines 167-169: the timeout fires.  A timeout set before a change of the
\* effect's dependencies is cleared by the cleanup of line 171 and does not
\* fire.
TimerTick ==
  /\ Rendered /\ timer /\ ~effectDue
  /\ visibleCount' = Min(Len(placedView), visibleCount + 1)
  /\ timer' = FALSE
  /\ effectDue' = (visibleCount' # visibleCount)
  /\ UNCHANGED <<inputVars, pc, ret, packVars, gaVars, viewVars,
                 isPlaying, busy, userPresent>>

\* A click handler that sets isPlaying to playing and visibleCount to count.
Click(playing, count) ==
  /\ userPresent /\ Rendered /\ ButtonsEnabled
  /\ isPlaying' = playing
  /\ visibleCount' = count
  /\ effectDue' = (effectDue \/ playing # isPlaying \/ count # visibleCount)
  /\ UNCHANGED <<inputVars, pc, ret, packVars, gaVars, viewVars,
                 busy, timer, userPresent>>

\* Line 427.
ClickReset == Click(FALSE, 0)

\* Line 431.
ClickPrev == Click(FALSE, Max(0, visibleCount - 1))

\* Line 435.
ClickPlay == Click(~isPlaying, visibleCount)

\* Line 439.
ClickNext == Click(FALSE, Min(Len(placedView), visibleCount + 1))

\* The user leaves the controls alone from now on.
UserLeaves ==
  /\ userPresent
  /\ userPresent' = FALSE
  /\ UNCHANGED <<inputVars, pc, ret, packVars, gaVars, viewVars,
                 visibleCount, isPlaying, busy, timer, effectDue>>

----------------------------------------------------------------------------
(* Specifications *)

\* The locals of the calls RS before their first step.
InitLocals(RS) ==
  /\ ret = [r \in RS |-> "none"]
  /\ order = [r \in RS |-> <<>>]
  /\ pos = [r \in RS |-> 1]
  /\ placed = [r \in RS |-> <<>>]
  /\ candidates = [r \in RS |-> <<>>]
  /\ remaining_weight = [r \in RS |-> 0]
  /\ result = [r \in RS |-> EmptyResult(<<>>)]
  /\ population = [r \in RS |-> req_population]
  /\ generations = [r \in RS |-> req_generations]
  /\ pop = [r \in RS |-> <<>>]
  /\ next = [r \in RS |-> <<>>]
  /\ gen = [r \in RS |-> 0]
  /\ p1 = [r \in RS |-> 0]
  /\ p2 = [r \in RS |-> 0]
  /\ child = [r \in RS |-> <<>>]
  /\ rngpos = [r \in RS |-> 0]
  /\ score0 = [r \in RS |-> RInt(0)]

InitRequest(seeds, lens, gens) ==
  /\ fine \in BOOLEAN
  /\ boxes \in UNION {[1..n -> GaCatalogue(fine)] : n \in lens}
  /\ truck \in IF boxes = <<>> THEN Trucks(fine) ELSE GaTrucks(fine)
  /\ req_population \in PopulationRequests
  /\ req_generations \in gens
  /\ mutation_rate \in MutationRates
  /\ seed \in seeds
  /\ sort_keeps_ties \in BOOLEAN

\* One call of optimize_ga, the random stream left open.
Init ==
  /\ InitRequest({-1}, 0..MaxGaBoxes, GenerationRequests)
  /\ pc = [r \in {1} |-> "start"]
  /\ InitLocals({1})
  /\ ViewIdle
  /\ PlayIdle

Next ==
  \/ \E r \in Runs : PackSkipOverweight(r)
  \/ \E r \in Runs : PackUnplaced(r)
  \/ \E r \in Runs : PackAccept(r)
  \/ \E r \in Runs : GaEmpty(r)
  \/ \E r \in Runs : GaSeed(r)
  \/ \E r \in Runs : PackReturnInit(r)
  \/ \E r \in Runs : GaShuffle(r)
  \/ \E r \in Runs : GenStart(r)
  \/ \E r \in Runs : SelectParent1(r)
  \/ \E r \in Runs : SelectParent2(r)
  \/ \E r \in Runs : Crossover(r)
  \/ \E r \in Runs : Mutate(r)
  \/ \E r \in Runs : PackReturnChild(r)
  \/ \E r \in Runs : GaFinish(r)

Spec == Init /\ [][Next]_vars

\* The mutation rates of the budget requests, in units of 1/UniRes: for the
\* short lists also a rate below 0 and one above 1.
BudgetMutationRates(bs) ==
  IF Len(bs) <= 4 THEN MutationRates \cup {-1, UniRes + 1} ELSE MutationRates

\* One call of optimize_ga on a request of BudgetRequests, seeded.
InitBudget ==
  /\ fine = FALSE
  /\ \E q \in BudgetRequests :
       /\ truck = q[1]
       /\ boxes = q[2]
       /\ req_population = q[3]
       /\ req_generations = q[4]
  /\ mutation_rate \in BudgetMutationRates(boxes)
  /\ seed = 0
  /\ sort_keeps_ties = TRUE
  /\ pc = [r \in {1} |-> "start"]
  /\ InitLocals({1})
  /\ ViewIdle
  /\ PlayIdle

SpecBudget == InitBudget /\ [][Next]_vars

\* Two calls of optimize_ga with the same arguments and seed, interleaved.
InitDet ==
  /\ InitRequest(0..(NumSeeds - 1), {0, MaxGaBoxes}, {0})
  /\ pc = [r \in {1, 2} |-> "start"]
  /\ InitLocals({1, 2})
  /\ ViewIdle
  /\ PlayIdle

SpecDet == InitDet /\ [][Next]_vars

\* pack_by_order alone: one request, one permutation.
InitPack ==
  /\ \/ /\ fine \in BOOLEAN
        /\ truck \in Trucks(fine)
        /\ boxes \in BoxLists(Catalogue(fine), 1, MaxBoxes)
        /\ order \in [{1} -> Perms(Len(boxes))]
     \/ /\ fine = FALSE
        /\ truck = S4Truck
        /\ boxes = S4Boxes
        /\ order \in [{1} -> Perms(Len(boxes))]
     \/ /\ fine = FALSE
        /\ truck = S5Truck
        /\ boxes = S5Boxes
        /\ order \in [{1} -> S5Orders]
     \/ /\ fine = FALSE
        /\ truck = TwoSupportTruck
        /\ boxes = TwoSupportBoxes
        /\ order \in [{1} -> Perms(Len(boxes))]
     \/ /\ fine = TRUE
        /\ truck = SliverTruck
        /\ boxes = SliverBoxes
        /\ order \in [{1} -> Perms(Len(boxes))]
  /\ req_population = 0 /\ req_generations = 0 /\ mutation_rate = 0
  /\ seed = -1 /\ sort_keeps_ties = TRUE
  /\ pc = [r \in {1} |-> "pack"]
  /\ ret = [r \in {1} |-> "direct"]
  /\ pos = [r \in {1} |-> 1]
  /\ placed = [r \in {1} |-> <<>>]
  /\ candidates = [r \in {1} |-> <<Candidate(0, 0, 0)>>]
  /\ remaining_weight = [r \in {1} |-> truck.max_weight]
  /\ result = [r \in {1} |-> EmptyResult(boxes)]
  /\ population = [r \in {1} |-> 0]
  /\ generations = [r \in {1} |-> 0]
  /\ pop = [r \in {1} |-> <<>>]
  /\ next = [r \in {1} |-> <<>>]
  /\ gen = [r \in {1} |-> 0]
  /\ p1 = [r \in {1} |-> 0]
  /\ p2 = [r \in {1} |-> 0]
  /\ child = [r \in {1} |-> <<>>]
  /\ rngpos = [r \in {1} |-> 0]
  /\ score0 = [r \in {1} |-> RInt(0)]
  /\ ViewIdle
  /\ PlayIdle

\* pack_by_order alone on the request that fills the candidate store, in the
\* order of the list.
InitCand ==
  /\ fine = FALSE
  /\ truck = RowTruck
  /\ boxes = RowBoxes
  /\ order = [r \in {1} |-> [i \in 1..Len(boxes) |-> i]]
  /\ req_population = 0 /\ req_generations = 0 /\ mutation_rate = 0
  /\ seed = -1 /\ sort_keeps_ties \in BOOLEAN
  /\ pc = [r \in {1} |-> "pack"]
  /\ ret = [r \in {1} |-> "direct"]
  /\ pos = [r \in {1} |-> 1]
  /\ placed = [r \in {1} |-> <<>>]
  /\ candidates = [r \in {1} |-> <<Candidate(0, 0, 0)>>]
  /\ remaining_weight = [r \in {1} |-> truck.max_weight]
  /\ result = [r \in {1} |-> EmptyResult(boxes)]
  /\ population = [r \in {1} |-> 0]
  /\ generations = [r \in {1} |-> 0]
  /\ pop = [r \in {1} |-> <<>>]
  /\ next = [r \in {1} |-> <<>>]
  /\ gen = [r \in {1} |-> 0]
  /\ p1 = [r \in {1} |-> 0]
  /\ p2 = [r \in {1} |-> 0]
  /\ child = [r \in {1} |-> <<>>]
  /\ rngpos = [r \in {1} |-> 0]
  /\ score0 = [r \in {1} |-> RInt(0)]
  /\ ViewIdle
  /\ PlayIdle

NextPack ==
  \/ \E r \in Runs : PackSkipOverweight(r)
  \/ \E r \in Runs : PackUnplaced(r)
  \/ \E r \in Runs : PackAccept(r)
  \/ \E r \in Runs : PackReturn(r)

SpecPack == InitPack /\ [][NextPack]_vars

SpecCand == InitCand /\ [][NextPack]_vars

\* crossover and mutate alone, on every pair of parent orders over up to
\* MaxCross boxes: the request is a truck 1x3x1 and n cubes 1x1x1 of weight
\* 1, which pack_by_order stacks in the order given, the fourth finding no
\* room; the population is the seed individual and three shuffled ones, all
\* of the same score, and the first child of the first generation is about
\* to be made from the parents selected.
MaxCross == 4
CrossTruck == Truck(1, 3, 1, 51)

\* The Result pack_by_order returns for CrossTruck, Cubes(n) and order o.
CubeResult(o) ==
  LET m == Min(Len(o), 3)
  IN [placed |-> <<>> \o [k \in 1..m |-> Placed(ToString(o[k]), 0, k - 1, 0, 1, 1, 1)],
      unplaced |-> <<>> \o [k \in 1..(Len(o) - m) |-> ToString(o[m + k])],
      used_volume |-> m, total_volume |-> Len(o), utilization |-> Rat(m, 3),
      total_weight |-> m]

CubeIndividual(o) == Individual(o, score_result(CubeResult(o)), CubeResult(o))

InitCross ==
  /\ fine = FALSE
  /\ truck = CrossTruck
  /\ boxes \in {Cubes(n) : n \in 1..MaxCross}
  /\ req_population = 4
  /\ req_generations = 1
  /\ mutation_rate \in MutationRates
  /\ seed = -1
  /\ sort_keeps_ties = TRUE
  /\ pc = [r \in {1} |-> "cross"]
  /\ ret = [r \in {1} |-> "shuffle"]
  /\ order = [r \in {1} |-> <<>>]
  /\ pos = [r \in {1} |-> 1]
  /\ placed = [r \in {1} |-> <<>>]
  /\ candidates = [r \in {1} |-> <<>>]
  /\ remaining_weight = [r \in {1} |-> 0]
  /\ population = [r \in {1} |-> 4]
  /\ generations = [r \in {1} |-> 1]
  /\ \E a, b \in Perms(Len(boxes)) :
       /\ pop = [r \in {1} |->
                  << CubeIndividual(HeuristicOrder(boxes)), CubeIndividual(a),
                     CubeIndividual(b), CubeIndividual(b) >>]
       /\ result = [r \in {1} |-> CubeResult(b)]
  /\ next = [r \in {1} |-> <<CubeIndividual(HeuristicOrder(boxes))>>]
  /\ gen = [r \in {1} |-> 0]
  /\ p1 = [r \in {1} |-> 2]
  /\ p2 = [r \in {1} |-> 3]
  /\ child = [r \in {1} |-> <<>>]
  /\ rngpos = [r \in {1} |-> 0]
  /\ score0 = [r \in {1} |-> score_result(CubeResult(HeuristicOrder(boxes)))]
  /\ ViewIdle
  /\ PlayIdle

NextCross ==
  \/ \E r \in Runs : Crossover(r)
  \/ \E r \in Runs : Mutate(r)

SpecCross == InitCross /\ [][NextCross]_vars

\* The seeding of individual 0 alone, on every list of up to MaxSeedBoxes
\* different boxes of SeedCatalogue: boxes of two volumes, of equal and
\* different priority; on the fine grid the volumes 1750 and 2000 are within
\* the 1e-12 of line 340 of each other and 4000 is not.
MaxSeedBoxes == 4

SeedCatalogue(f) ==
  IF f THEN { Box("S", 35, 10, 5, 0, 1), Box("X", 35, 10, 5, 0, 1),
              Box("T", 40, 10, 5, 48, 1), Box("V", 40, 10, 5, 48, 2),
              Box("W", 80, 10, 5, 48, 1) }
  ELSE { Box("a", 1, 1, 1, 1, 1), Box("e", 1, 1, 1, 1, 1), Box("b", 1, 1, 1, 1, 2),
         Box("c", 2, 1, 1, 1, 1), Box("d", 1, 1, 2, 1, 3) }

InitSeed ==
  /\ fine \in BOOLEAN
  /\ boxes \in UNION {{s \in [1..n -> SeedCatalogue(fine)] :
                         \A i, j \in 1..n : s[i] = s[j] => i = j}
                        : n \in 1..MaxSeedBoxes}
  /\ truck \in GaTrucks(fine)
  /\ req_population = 0
  /\ req_generations = 0
  /\ mutation_rate \in MutationRates
  /\ seed = -1
  /\ sort_keeps_ties = TRUE
  /\ pc = [r \in {1} |-> "start"]
  /\ InitLocals({1})
  /\ ViewIdle
  /\ PlayIdle

NextSeed ==
  \/ \E r \in Runs : GaSeed(r)

SpecSeed == InitSeed /\ [][NextSeed]_vars

\* The viewer alone: buildSupportAwareLoadOrder on every list of up to MaxView
\* distinct placements of ViewCatalogue. d and e stand on the floor, c on d (and
\* further back than d), f on e; a and b are 0.4 micrometres thin, a on c and
\* b on a, so that by the tolerance yEps each of a and b supports the other.
MaxView == 4

ViewCatalogue ==
  {Placed("d", 0, 0, 0, ViewMm, ViewCm, 2 * ViewCm),
   Placed("c", 0, ViewCm, ViewCm, ViewMm, ViewCm, ViewCm),
   Placed("e", ViewMm, 0, 0, ViewMm, ViewCm, ViewCm),
   Placed("f", ViewMm, ViewCm, 0, ViewMm, ViewCm, ViewCm),
   Placed("a", 0, 2 * ViewCm, ViewCm, ViewMm, 4, ViewCm),
   Placed("b", 0, 2 * ViewCm + 4, ViewCm, ViewMm, 4, ViewCm)}

ViewLists ==
  UNION {{s \in [1..n -> ViewCatalogue] : \A i, j \in 1..n : s[i] = s[j] => i = j}
           : n \in 0..MaxView}

InitView ==
  /\ fine = FALSE
  /\ truck = Truck(1, 1, 1, 1)
  /\ boxes = <<>>
  /\ req_population = 0
  /\ req_generations = 0
  /\ mutation_rate = 0
  /\ seed = 0
  /\ sort_keeps_ties = TRUE
  /\ pc = [r \in {1} |-> "done"]
  /\ InitLocals({1})
  /\ vpc = "start"
  /\ items \in ViewLists
  /\ inDegree = <<>>
  /\ available = <<>>
  /\ orderedIndices = <<>>
  /\ placedView = <<>>
  /\ PlayIdle

NextView ==
  \/ BuildStart
  \/ TakeNext
  \/ BuildReturn

SpecView == InitView /\ [][NextView]_vars

\* The playback: App is mounted with no result; the user asks for
\* optimizations, whose results are lists of at most MaxPlay placements, and
\* clicks the playback buttons until leaving.  The renders, the effect and
\* the timeout are not held up for ever.
MaxPlay == 2
PlayResults == {s \in ViewLists : Len(s) <= MaxPlay}

InitPlay ==
  /\ fine = FALSE
  /\ truck = Truck(1, 1, 1, 1)
  /\ boxes = <<>>
  /\ req_population = 0
  /\ req_generations = 0
  /\ mutation_rate = 0
  /\ seed = 0
  /\ sort_keeps_ties = TRUE
  /\ pc = [r \in {1} |-> "done"]
  /\ InitLocals({1})
  /\ vpc = "done"
  /\ items = <<>>
  /\ inDegree = <<>>
  /\ available = <<>>
  /\ orderedIndices = <<>>
  /\ placedView = <<>>
  /\ visibleCount = 0 /\ isPlaying = FALSE /\ busy = FALSE
  /\ timer = FALSE /\ effectDue = FALSE /\ userPresent = TRUE

Render ==
  \/ BuildStart
  \/ TakeNext
  \/ BuildReturn

NextPlay ==
  \/ onOptimizeCall
  \/ \E out \in PlayResults : onOptimizeResult(out)
  \/ onOptimizeError
  \/ BuildStart
  \/ TakeNext
  \/ BuildReturn
  \/ PlaybackEffect
  \/ TimerTick
  \/ ClickReset
  \/ ClickPrev
  \/ ClickPlay
  \/ ClickNext
  \/ UserLeaves

SpecPlay ==
  /\ InitPlay /\ [][NextPlay]_vars
  /\ WF_vars(Render) /\ WF_vars(PlaybackEffect) /\ WF_vars(TimerTick)

----------------------------------------------------------------------------
(* Properties *)

Done(r) == pc[r] = "done"
TruckVolume == truck.w * truck.h * truck.d

\* The lengths over which a and b overlap along each axis.
OverlapX(a, b) == Min(a.x + a.w, b.x + b.w) - Max(a.x, b.x)
OverlapY(a, b) == Min(a.y + a.h, b.y + b.h) - Max(a.y, b.y)
OverlapZ(a, b) == Min(a.z + a.d, b.z + b.d) - Max(a.z, b.z)

ShareInterior(a, b) == OverlapX(a, b) > 0 /\ OverlapY(a, b) > 0 /\ OverlapZ(a, b) > 0

\* b stands on a: a's top face is b's bottom face and their footprints overlap.
TouchOnFace(a, b) == a.y + a.h = b.y /\ OverlapX(a, b) > 0 /\ OverlapZ(a, b) > 0

\* C1 (non-overlap): at every point of pack_by_order and in the Result it
\* returns, for every permutation, no two placements share interior volume;
\* placements that touch on a face are allowed.
NonOverlap ==
  \A r \in Runs : \A i, j \in 1..Len(result[r].placed) :
    i < j => ~ShareInterior(result[r].placed[i], result[r].placed[j])

\* A returned Result of three placements, one standing on another.
NonOverlapWitness ==
  \E r \in Runs :
    /\ Done(r)
    /\ Len(result[r].placed) = 3
    /\ \E i, j \in 1..3 : TouchOnFace(result[r].placed[i], result[r].placed[j])

\* C2 (containment): every placement of every Result lies inside the truck:
\* x, y, z >= 0 and x+w <= truck.w, y+h <= truck.h, z+d <= truck.d.
Containment ==
  \A r \in Runs : \A i \in 1..Len(result[r].placed) :
    LET p == result[r].placed[i]
    IN /\ p.x >= 0 /\ p.y >= 0 /\ p.z >= 0
       /\ p.x + p.w <= truck.w
       /\ p.y + p.h <= truck.h
       /\ p.z + p.d <= truck.d

\* A returned placement above the floor that reaches the roof and two walls,
\* with a box left unplaced.
ContainmentWitness ==
  \E r \in Runs :
    /\ Done(r)
    /\ result[r].unplaced # <<>>
    /\ \E i \in 1..Len(result[r].placed) :
         LET p == result[r].placed[i]
         IN p.y > 0 /\ p.y + p.h = truck.h /\ p.x + p.w = truck.w /\ p.z + p.d = truck.d

\* The footprint area of ps[i] that lies on boxes of ps whose top face is at
\* its bottom face.
RestsOn(ps, i, j) == j # i /\ Abs(ps[j].y + ps[j].h - ps[i].y) <= kFaceTol

SupportedArea(ps, i) ==
  SumSeq([j \in 1..Len(ps) |->
            IF RestsOn(ps, i, j)
            THEN Max(0, OverlapX(ps[i], ps[j])) * Max(0, OverlapZ(ps[i], ps[j]))
            ELSE 0])

\* The xz centroid of ps[i] (doubled coordinates) lies in its overlap
\* rectangle with a box it rests on.
CentroidSupported(ps, i) ==
  \E j \in 1..Len(ps) :
    /\ RestsOn(ps, i, j)
    /\ 2 * Max(ps[i].x, ps[j].x) <= 2 * ps[i].x + ps[i].w
    /\ 2 * ps[i].x + ps[i].w <= 2 * Min(ps[i].x + ps[i].w, ps[j].x + ps[j].w)
    /\ 2 * Max(ps[i].z, ps[j].z) <= 2 * ps[i].z + ps[i].d
    /\ 2 * ps[i].z + ps[i].d <= 2 * Min(ps[i].z + ps[i].d, ps[j].z + ps[j].d)

StatedBudget(s) ==
  Min(kMaxStackMultiplier * s.weight, s.box.w * s.box.d * kMaxPressure)

WeightOf(id) == boxes[CHOOSE k \in 1..Len(boxes) : boxes[k].id = id].weight

PlacedWeight(res) == SumSeq([i \in 1..Len(res.placed) |-> WeightOf(res.placed[i].id)])

\* C5 (weight cap): in every Result total_weight is the sum of the weights of
\* the placed boxes and is at most truck.max_weight + 1e-9.
WeightCap ==
  \A r \in Runs :
    /\ result[r].total_weight = PlacedWeight(result[r])
    /\ result[r].total_weight <= truck.max_weight + kSlack

\* A returned Result with weight on board and a box left out that the truck
\* could not take on top of it.
WeightCapWitness ==
  \E r \in Runs :
    /\ Done(r)
    /\ result[r].total_weight > 0
    /\ \E k \in 1..Len(result[r].unplaced) :
         WeightOf(result[r].unplaced[k]) + result[r].total_weight > truck.max_weight + kSlack

Count(q, x) == Cardinality({i \in 1..Len(q) : q[i] = x})
InputIds == [k \in 1..Len(boxes) |-> boxes[k].id]
ResultIds(res) == [i \in 1..Len(res.placed) |-> res.placed[i].id] \o res.unplaced

\* C6 (partition): in the Result optimize_ga returns for a non-empty box list
\* the placed ids together with the unplaced ids are the input ids, each as
\* often as in the input.
Partition ==
  \A r \in Runs :
    (Done(r) /\ boxes # <<>>) =>
      /\ Len(ResultIds(result[r])) = Len(boxes)
      /\ \A k \in 1..Len(boxes) :
           Count(ResultIds(result[r]), boxes[k].id) = Count(InputIds, boxes[k].id)

\* optimize_ga returns, after two generations, one box placed and one not.
PartitionWitness ==
  \E r \in Runs :
    /\ Done(r)
    /\ gen[r] = MaxGenerations
    /\ Len(boxes) = MaxGaBoxes
    /\ result[r].placed # <<>>
    /\ result[r].unplaced # <<>>

BestScore(p) ==
  CHOOSE sc \in {p[i].score : i \in 1..Len(p)} :
    \A i \in 1..Len(p) : RLeq(p[i].score, sc)

\* C8 (monotone improvement): the score of the Result optimize_ga returns is
\* at least the score of individual 0, and the best score of the population
\* does not decrease from one generation to the next.
MonotoneImprovement ==
  /\ [](\A r \in Runs :
          (Done(r) /\ boxes # <<>>) => RLeq(score0[r], score_result(result[r])))
  /\ [][\A r \in Runs :
          gen'[r] = gen[r] + 1 => RLeq(BestScore(pop[r]), BestScore(pop'[r]))]_vars

\* optimize_ga returns, after two generations, a Result that scores above
\* individual 0.
MonotoneImprovementWitness ==
  \E r \in Runs :
    /\ Done(r)
    /\ gen[r] = MaxGenerations
    /\ RLess(score0[r], score_result(result[r]))

PlacedVolume(res) ==
  SumSeq([i \in 1..Len(res.placed) |->
            res.placed[i].w * res.placed[i].h * res.placed[i].d])

\* C9 (volume law): in every Result used_volume is the sum of w*h*d over the
\* placed boxes, and the returned utilization is used_volume divided by the
\* truck's volume, 0 when that volume is not positive.
VolumeLaw ==
  \A r \in Runs :
    /\ result[r].used_volume = PlacedVolume(result[r])
    /\ Done(r) =>
         IF TruckVolume > 0
         THEN /\ result[r].utilization.d > 0
              /\ result[r].utilization.n * TruckVolume
                   = result[r].used_volume * result[r].utilization.d
         ELSE result[r].utilization = RInt(0)

\* A returned Result whose placements fill a proper fraction of the truck.
VolumeLawWitness ==
  \E r \in Runs :
    /\ Done(r)
    /\ Len(result[r].placed) >= 2
    /\ result[r].utilization.n > 0
    /\ result[r].utilization.d > 1

ValidInput ==
  /\ truck.w > 0 /\ truck.h > 0 /\ truck.d > 0 /\ truck.max_weight > 0
  /\ \A k \in 1..Len(boxes) :
       boxes[k].w > 0 /\ boxes[k].h > 0 /\ boxes[k].d > 0 /\ boxes[k].weight >= 0

\* C10 (utilization range): for a valid input the used volume is never above
\* the truck's volume, and the utilization lies in [0, 1].
UtilizationRange ==
  \A r \in Runs :
    ValidInput =>
      /\ result[r].used_volume <= TruckVolume
      /\ RLeq(RInt(0), result[r].utilization)
      /\ RLeq(result[r].utilization, RInt(1))

\* A valid input whose returned Result fills the truck.
UtilizationRangeWitness ==
  \E r \in Runs :
    /\ Done(r)
    /\ ValidInput
    /\ result[r].placed # <<>>
    /\ result[r].utilization = RInt(1)

\* Scenario S3: truck 2x2x2, max_weight 100; A(2,1,2, weight 10) and
\* B(2,1,1, weight 10), in either order of the input list.
S3Request ==
  /\ ~fine
  /\ truck = Truck(2, 2, 2, 100)
  /\ Range(boxes) = {Box("A", 2, 1, 2, 10, 1), Box("B", 2, 1, 1, 10, 1)}
  /\ Len(boxes) = 2

\* C11 (scenario S3), as the code has it: both boxes are placed.  When A is
\* packed first it lies at (0,0,0) and B is stacked on it at (0,1,0), B's
\* whole base being covered; when B is packed first it lies at (0,0,0) and A
\* stands beside it on the floor at (0,0,1) as 2x2x1.
ScenarioS3 ==
  \A r \in Runs :
    (S3Request /\ Done(r)) =>
      /\ result[r].unplaced = <<>>
      /\ \/ result[r].placed = << Placed("A", 0, 0, 0, 2, 1, 2),
                                  Placed("B", 0, 1, 0, 2, 1, 1) >>
         \/ result[r].placed = << Placed("B", 0, 0, 0, 2, 1, 1),
                                  Placed("A", 0, 0, 1, 2, 2, 1) >>

\* C11 as stated: A lies at (0,0,0), B on the floor, and nothing at y = 1.
ScenarioS3AsStated ==
  \A r \in Runs :
    (S3Request /\ Done(r)) =>
      /\ \E i \in 1..Len(result[r].placed) :
           LET p == result[r].placed[i]
           IN p.id = "A" /\ p.x = 0 /\ p.y = 0 /\ p.z = 0
      /\ \E i \in 1..Len(result[r].placed) :
           result[r].placed[i].id = "B" /\ result[r].placed[i].y = 0
      /\ \A i \in 1..Len(result[r].placed) : result[r].placed[i].y # 1

\* S3 packed in the input order A, B has returned with B at y = 1.
ScenarioS3Witness ==
  \E r \in Runs :
    /\ S3Request /\ Done(r)
    /\ boxes[1].id = "A"
    /\ Len(result[r].placed) = 2
    /\ result[r].placed[2].id = "B"
    /\ result[r].placed[2].y = 1

\* Scenario S4: truck 1x2x1 m, max_weight 10000 kg; a base box of 1 kg and
\* four flat boxes of 1000 kg (boxes[1] is the base box).
S4Request == ~fine /\ truck = S4Truck /\ boxes = S4Boxes

\* The index in the order o at which box i is packed.
PositionOf(o, i) == CHOOSE k \in 1..Len(o) : o[k] = i

\* C12 (scenario S4), as the code has it: no 1000-kg box is ever placed over
\* the base box, and the order seeded by the heuristic (base first) places
\* the base alone at (0,0,0).  In general the boxes packed before the base
\* lie flat in a stack from the floor, the base stands on that stack, and
\* every box packed after the base is unplaced.
ScenarioS4 ==
  \A r \in Runs :
    (S4Request /\ AtReturn(r)) =>
      LET k == PositionOf(order[r], 1)
          res == result[r]
      IN /\ HeuristicOrder(boxes)[1] = 1
         /\ res.placed =
              [i \in 1..k |->
                 IF i < k
                 THEN Placed(boxes[order[r][i]].id, 0, i - 1, 0, 4, 1, 4)
                 ELSE Placed("base", 0, k - 1, 0, 4, 4, 4)]
         /\ res.unplaced =
              [i \in 1..(Len(boxes) - k) |-> boxes[order[r][k + i]].id]
         /\ \A i \in 1..Len(placed[r]) :
              placed[r][i].id = "base" => placed[r][i].load_on_top = RInt(0)

\* C12 as stated: whatever the permutation, the base alone is placed, at y = 0.
ScenarioS4AsStated ==
  \A r \in Runs :
    (S4Request /\ Done(r)) =>
      /\ Len(result[r].placed) = 1
      /\ result[r].placed[1].id = "base"
      /\ result[r].placed[1].y = 0

\* S4 packed with the base last: all five boxes are placed, the base on top
\* of the four 1000-kg boxes.
ScenarioS4Witness ==
  \E r \in Runs :
    /\ S4Request /\ AtReturn(r)
    /\ order[r][5] = 1
    /\ Len(result[r].placed) = 5
    /\ result[r].placed[5] = Placed("base", 0, 4, 0, 4, 4, 4)

\* Scenario S5: truck 10x1x1, max_weight 3; ten boxes 1x1x1 of weight 1.
S5Request == ~fine /\ truck = S5Truck /\ boxes = S5Boxes

\* The step of run r that handles its current box.
HandlesBox(r) == InLoop(r) /\ pos'[r] = pos[r] + 1

\* C13 (scenario S5 and the weight cap): S5 ends with the first three boxes
\* of the order placed side by side and the other seven unplaced in order.
\* In every request, the step on a box heavier than the remaining weight
\* records it as unplaced and leaves the placed boxes, the candidate points
\* and the remaining weight as they were; the step on a box that is not too
\* heavy and for which the sweep finds a placement places it.
WeightCapSkip ==
  /\ [](\A r \in Runs :
          (S5Request /\ AtReturn(r)) =>
            /\ result[r].placed =
                 [i \in 1..3 |->
                    Placed(boxes[order[r][i]].id, i - 1, 0, 0, 1, 1, 1)]
            /\ result[r].unplaced =
                 [i \in 1..7 |-> boxes[order[r][3 + i]].id])
  /\ [][\A r \in Runs :
          /\ (HandlesBox(r) /\ Overweight(r, CurBox(r))) =>
               /\ result'[r] =
                    [result[r] EXCEPT !.unplaced = Append(@, CurBox(r).id)]
               /\ placed'[r] = placed[r]
               /\ candidates'[r] = candidates[r]
               /\ remaining_weight'[r] = remaining_weight[r]
          /\ ( /\ HandlesBox(r)
               /\ ~Overweight(r, CurBox(r))
               /\ Sweep(placed[r], unique_candidates(candidates[r]),
                        CurBox(r)).found ) =>
               /\ Len(result'[r].placed) = Len(result[r].placed) + 1
               /\ result'[r].placed[Len(result'[r].placed)].id = CurBox(r).id
               /\ result'[r].unplaced = result[r].unplaced]_vars

\* S5 packed in an order that does not start with the first box has returned
\* three placed boxes and seven unplaced ids.
WeightCapSkipWitness ==
  \E r \in Runs :
    /\ S5Request /\ AtReturn(r)
    /\ order[r][1] # 1
    /\ Len(result[r].placed) = 3
    /\ Len(result[r].unplaced) = 7
    /\ remaining_weight[r] = 0

\* C14 (empty input): a call with an empty box list never leaves the entry
\* of optimize_ga for the GA (no individual, no draw, no generation, no
\* packing) and returns the Result with nothing placed, nothing unplaced
\* and all four numbers 0, whatever the truck and the parameters.
EmptyInput ==
  \A r \in Runs :
    boxes = <<>> =>
      /\ pc[r] \in {"start", "done"}
      /\ pop[r] = <<>> /\ next[r] = <<>> /\ gen[r] = 0
      /\ rngpos[r] = 0 /\ ret[r] = "none" /\ order[r] = <<>>
      /\ Done(r) =>
           /\ result[r].placed = <<>>
           /\ result[r].unplaced = <<>>
           /\ result[r].used_volume = 0
           /\ result[r].total_volume = 0
           /\ result[r].utilization = RInt(0)
           /\ result[r].total_weight = 0

\* A call with no boxes, a truck of positive volume and a positive requested
\* population and generations has returned.
EmptyInputWitness ==
  \E r \in Runs :
    /\ boxes = <<>> /\ Done(r)
    /\ truck.w * truck.h * truck.d > 0
    /\ req_population > 0 /\ req_generations > 0

\* The caps of the claim for n boxes.
CapP(n) == IF n > 250 THEN 10 ELSE IF n > 150 THEN 18 ELSE 30
CapG(n) == IF n > 250 THEN 6 ELSE IF n > 150 THEN 12 ELSE 25

\* Run r is between the start of the first generation and its return.
InGenerations(r) ==
  \/ pc[r] \in {"loop", "select1", "select2", "cross", "mutate", "done"}
  \/ pc[r] = "pack" /\ ret[r] = "child"

\* C15 (budget capping): from the moment a call on n >= 1 boxes fixes its
\* budget, population = max(4, min(requested, cap_p)) and generations =
\* max(1, min(requested, cap_g)); the initial population is filled up to
\* exactly population individuals, it holds exactly that many in every
\* generation, the next one never more, and exactly generations generations
\* are run.
BudgetCapping ==
  \A r \in Runs :
    (boxes # <<>> /\ pc[r] # "start") =>
      /\ population[r] = Max(4, Min(req_population, CapP(Len(boxes))))
      /\ generations[r] = Max(1, Min(req_generations, CapG(Len(boxes))))
      /\ Len(pop[r]) <= population[r]
      /\ InGenerations(r) => Len(pop[r]) = population[r]
      /\ Len(next[r]) < population[r]
      /\ gen[r] <= generations[r]
      /\ Done(r) => gen[r] = generations[r]

\* A call on more than 250 boxes asking for a population of 11 has returned
\* after one generation of 10 individuals.
BudgetCappingWitness ==
  \E r \in Runs :
    /\ Len(boxes) > 250 /\ req_population = 11
    /\ Done(r)
    /\ Len(pop[r]) = 10 /\ gen[r] = 1

\* Run r has not gone past the entry of optimize_ga: no individual has been
\* packed or evaluated and no Result has been returned.
FailedFast(r) ==
  /\ pc[r] = "start"
  /\ pop[r] = <<>>
  /\ result[r].placed = <<>> /\ result[r].unplaced = <<>>

\* The parameters section 7 of the specification calls InvalidParams
\* (mutation_rate is in units of 1/UniRes).
InvalidParams ==
  \/ mutation_rate < 0 \/ mutation_rate > UniRes
  \/ req_population < 0
  \/ req_generations < 0

\* C16 (InvalidParams), as stated: a request with a mutation_rate outside
\* [0,1] or a negative population or generations runs no optimization and
\* returns no Result.
InvalidParamsRejected ==
  \A r \in Runs : InvalidParams => FailedFast(r)

\* The geometry section 7 of the specification calls InvalidGeometry.
InvalidGeometry ==
  \/ truck.w <= 0 \/ truck.h <= 0 \/ truck.d <= 0
  \/ truck.max_weight <= 0
  \/ \E i \in 1..Len(boxes) : boxes[i].w <= 0 \/ boxes[i].h <= 0 \/ boxes[i].d <= 0

\* C17 (InvalidGeometry), as stated: a request with a truck or box extent
\* <= 0 or with max_weight <= 0 attempts no packing and returns no Result,
\* so that no box of it is placed or listed as unplaced.
InvalidGeometryRejected ==
  \A r \in Runs : InvalidGeometry => FailedFast(r)

\* Two boxes of the request share their id.
DuplicateId ==
  \E i, j \in 1..Len(boxes) : i # j /\ boxes[i].id = boxes[j].id

\* The ids of a Result, placed then unplaced.
IdsOf(res) == [i \in 1..Len(res.placed) |-> res.placed[i].id] \o res.unplaced

\* C18 (DuplicateId), as stated: a request with two boxes of the same id
\* runs no optimization and returns no Result, and no Result holds an id
\* twice across placed and unplaced.
DuplicateIdRejected ==
  \A r \in Runs :
    /\ DuplicateId => FailedFast(r)
    /\ \A i, j \in 1..Len(IdsOf(result[r])) :
         IdsOf(result[r])[i] = IdsOf(result[r])[j] => i = j

\* C19 (candidate bound), as the code has it: every sweep iterates over at
\* most kMaxCandidates points, the candidate vector as unique_candidates
\* leaves it; the three points appended for an accepted box stay in the
\* vector until the next box is swept, so that the vector holds at most
\* kMaxCandidates + 3 points at any time.
CandidateBound ==
  /\ [](\A r \in Runs : Len(candidates[r]) <= kMaxCandidates + 3)
  /\ [][\A r \in Runs :
          (HandlesBox(r) /\ ~Overweight(r, CurBox(r))) =>
            \E cands \in {unique_candidates(candidates[r])} :
              /\ Len(cands) <= kMaxCandidates
              /\ Len(candidates'[r]) <= Len(cands) + 3
              /\ Len(candidates'[r]) > kMaxCandidates =>
                   Len(result'[r].placed) = Len(result[r].placed) + 1]_vars

\* C19 as stated: the candidate vector never holds more than 350 points.
CandidateBoundAsStated ==
  \A r \in Runs : Len(candidates[r]) <= kMaxCandidates

\* A box has been accepted on a vector truncated to kMaxCandidates points,
\* which now holds three more.
CandidateBoundWitness ==
  \E r \in Runs :
    /\ pc[r] = "pack"
    /\ Len(candidates[r]) = kMaxCandidates + 3
    /\ Len(placed[r]) = 118

\* Everything run r owns: its position, the locals of its pack_by_order and
\* of its optimize_ga, its PRNG.
Locals(r) ==
  << pc[r], ret[r], order[r], pos[r], placed[r], candidates[r],
     remaining_weight[r], result[r], population[r], generations[r], pop[r],
     next[r], gen[r], p1[r], p2[r], child[r], rngpos[r], score0[r] >>

\* Runs r and q are at the same point of optimize_ga.
SamePoint(r, q) ==
  /\ pc[r] = pc[q] /\ ret[r] = ret[q] /\ gen[r] = gen[q]
  /\ Len(pop[r]) = Len(pop[q]) /\ Len(next[r]) = Len(next[q])
  /\ pos[r] = pos[q]

SupportsInView(j, i) == ViewEdge(placedView, j, i)

\* The support relation of the list passed in has a cycle.
SupportCycle ==
  \E n \in 2..Len(items) :
    \E c \in [1..n -> 1..Len(items)] :
      /\ \A k \in 1..(n - 1) : ViewEdge(items, c[k], c[k + 1])
      /\ ViewEdge(items, c[n], c[1])

Tried(cands, box) ==
  {AABB(cands[i].x, cands[i].y, cands[i].z,
        rots(box)[j][1], rots(box)[j][2], rots(box)[j][3]) :
     i \in 1..Len(cands), j \in 1..NumRots}
FeasibleAt(pl, candidate, weight) ==
  /\ inside_truck(truck, candidate)
  /\ ~collides_any(candidate, pl)
  /\ support_ok_and_apply_load(candidate, weight, pl).ok
Feasibles(pl, cands, box) ==
  {c \in Tried(cands, box) : FeasibleAt(pl, c, box.weight)}

\* C22: for each box that is not turned away for its weight, the sweep finds
\* a placement exactly when one is feasible against the loads committed
\* before the sweep, and the placement it accepts is feasible so and no
\* feasible placement is smaller under (y, z, x).
BestFeasible ==
  \A r \in Runs :
    (InLoop(r) /\ ~Overweight(r, CurBox(r))) =>
      \E cands \in {unique_candidates(candidates[r])} :
      \E sw \in {Sweep(placed[r], cands, CurBox(r))} :
      \E F \in {Feasibles(placed[r], cands, CurBox(r))} :
        /\ sw.found <=> F # {}
        /\ sw.found => /\ sw.best \in F
                       /\ \A f \in F : ~better(f, sw.best)

\* The share of its weight a box placed at b puts on pl[i]: the area-weighted
\* share when pl[i]'s top face is at b's bottom face and they overlap in xz.
ShareOn(i, b, weight, pl) ==
  IF /\ b.y > kEpsLen
     /\ ~ (Abs((pl[i].box.y + pl[i].box.h) - b.y) > kFaceTol)
     /\ overlap_area_xz(b, pl[i].box) > kEps
  THEN AddedLoad(weight, overlap_area_xz(b, pl[i].box), Max(kEps, b.w * b.d))
  ELSE RInt(0)

\* C23 (sweep leaves no stray load): a step of pack_by_order on a box that is
\* not turned away for its weight either places it, and then every box placed
\* before keeps its fields but for load_on_top, which grows by exactly the
\* share of the accepted placement on it, or leaves it unplaced, and then
\* the placed boxes are as they were before the sweep.
SweepFrame ==
  [][\A r \in Runs :
       (HandlesBox(r) /\ ~Overweight(r, CurBox(r))) =>
         IF Len(result'[r].placed) = Len(result[r].placed)
         THEN placed'[r] = placed[r]
         ELSE /\ Len(placed'[r]) = Len(placed[r]) + 1
              /\ \A i \in 1..Len(placed[r]) :
                   placed'[r][i] =
                     [placed[r][i] EXCEPT !.load_on_top =
                        RAdd(@, ShareOn(i, placed'[r][Len(placed'[r])].box,
                                        CurBox(r).weight, placed[r]))]]_vars

\* Three boxes are placed, the second and the third on top of another box
\* that carries the weight of both: the sweep of the third tried further
\* placements on the same support and kept the load of one.
SweepFrameWitness ==
  \E r \in Runs :
    /\ pc[r] = "pack"
    /\ Len(placed[r]) = 3
    /\ placed[r][2].box.y > 0 /\ placed[r][3].box.y > 0
    /\ placed[r][3].weight > 0
    /\ result[r].unplaced = <<>>
    /\ placed[r][1].load_on_top = RInt(placed[r][2].weight + placed[r][3].weight)

\* The placed vectors the kernel is called on during the sweep of run r's
\* current box over cands: the one the sweep starts from, and that one with
\* the shares of a provisional best applied.
SweepStates(r, cands) ==
  {placed[r]} \cup
    {support_ok_and_apply_load(c, CurBox(r).weight, placed[r]).placed :
       c \in Tried(cands, CurBox(r))}

\* The candidates the sweep hands to the kernel on pl.
KernelInputs(pl, cands, box) ==
  {c \in Tried(cands, box) : inside_truck(truck, c) /\ ~collides_any(c, pl)}

\* C24 (kernel rejects without mutation): on every placed vector and candidate
\* the sweep hands to support_ok_and_apply_load, a call that returns false
\* leaves every placed box as it was and the applied list empty, and a call
\* that returns true has applied only shares that each support can carry on
\* top of the load it had before the call.
KernelReject ==
  \A r \in Runs :
    (InLoop(r) /\ ~Overweight(r, CurBox(r))) =>
      \E cands \in {unique_candidates(candidates[r])} :
        \A pl \in SweepStates(r, cands) :
          \A c \in KernelInputs(pl, cands, CurBox(r)) :
            \E k \in {support_ok_and_apply_load(c, CurBox(r).weight, pl)} :
              /\ ~k.ok => (k.placed = pl /\ k.applied = <<>>)
              /\ k.ok =>
                   \A a \in 1..Len(k.applied) :
                     ~ RLess(RInt(pl[k.applied[a].idx].max_load + kSlack),
                             RAdd(pl[k.applied[a].idx].load_on_top, k.applied[a].added))

\* The kernel is called on a candidate that rests on two placed boxes, of
\* which the first can carry its share and the second cannot, and returns
\* false.
KernelRejectWitness ==
  \E r \in Runs :
    /\ InLoop(r) /\ ~Overweight(r, CurBox(r))
    /\ \E c \in KernelInputs(placed[r], unique_candidates(candidates[r]), CurBox(r)) :
         /\ ~support_ok_and_apply_load(c, CurBox(r).weight, placed[r]).ok
         /\ \E i, j \in 1..Len(placed[r]) :
              /\ i < j
              /\ RLess(RInt(0), ShareOn(i, c, CurBox(r).weight, placed[r]))
              /\ ~ RLess(RInt(placed[r][i].max_load + kSlack),
                         RAdd(placed[r][i].load_on_top,
                              ShareOn(i, c, CurBox(r).weight, placed[r])))
              /\ RLess(RInt(placed[r][j].max_load + kSlack),
                       RAdd(placed[r][j].load_on_top,
                            ShareOn(j, c, CurBox(r).weight, placed[r])))

\* The positions of an order of n genes outside the cut i..j, left to right.
OutsideCut(n, i, j) == SelectSeq([k \in 1..n |-> k], LAMBDA k : k < i \/ k > j)

\* c is the ordered crossover of a and b for the cut i..j: a's genes at the
\* positions i..j, and at the other positions, left to right, the genes of b
\* that are not in a[i..j], in b's order.
IsOrderedCrossover(c, a, b, i, j) ==
  /\ Len(c) = Len(a)
  /\ \A k \in i..j : c[k] = a[k]
  /\ [t \in 1..Len(OutsideCut(Len(a), i, j)) |-> c[OutsideCut(Len(a), i, j)[t]]]
       = SelectSeq(b, LAMBDA g : \A k \in i..j : a[k] # g)

\* C25 (ordered crossover): for the parents selected and every pair of cut
\* words, crossover yields the ordered crossover of the parents for the cut
\* i..j, i the smaller and j the larger of the two indices drawn; and the
\* child a crossover step leaves is one of these.
OrderedCrossover ==
  /\ [](\A r \in Runs :
          pc[r] = "cross" =>
            \A wi, wj \in Raw :
              \E a \in {pop[r][p1[r]].order} : \E b \in {pop[r][p2[r]].order} :
              \E ci \in {uniform_int(0, Len(a) - 1, wi)} :
              \E cj \in {uniform_int(0, Len(a) - 1, wj)} :
                IsOrderedCrossover(crossover(a, b, wi, wj), a, b,
                                   Min(ci, cj) + 1, Max(ci, cj) + 1))
  /\ [][\A r \in Runs :
          (pc[r] = "cross" /\ pc'[r] = "mutate") =>
            \E i, j \in 1..Len(boxes) :
              /\ i <= j
              /\ IsOrderedCrossover(child'[r], pop[r][p1[r]].order,
                                    pop[r][p2[r]].order, i, j)]_vars

\* A child of MaxCross genes differs from both parents: it holds a cut of
\* two genes of the first parent in the middle, and around it the other
\* genes in an order the first parent does not have them in.
OrderedCrossoverWitness ==
  \E r \in Runs :
    /\ pc[r] = "mutate"
    /\ Len(child[r]) = MaxCross
    /\ child[r] # pop[r][2].order /\ child[r] # pop[r][3].order
    /\ IsOrderedCrossover(child[r], pop[r][2].order, pop[r][3].order, 2, 3)

\* o lists every box index once: none missing, none repeated, no position
\* left at the mark of an unfilled one.
IsPermutation(o) ==
  /\ Len(o) = Len(boxes)
  /\ \A i \in 1..Len(boxes) : \E k \in 1..Len(o) : o[k] = i
  /\ \A j, k \in 1..Len(o) : o[j] = o[k] => j = k
  /\ \A k \in 1..Len(o) : o[k] # Unfilled

\* C26 (permutation invariant): at every point of optimize_ga the order of
\* every individual of the population and of the next generation, of the
\* child after crossover and after mutation, and the order pack_by_order is
\* running on, is a permutation of the box indices; also for a single box.
PermutationInvariant ==
  \A r \in Runs :
    /\ \A k \in 1..Len(pop[r]) : IsPermutation(pop[r][k].order)
    /\ \A k \in 1..Len(next[r]) : IsPermutation(next[r][k].order)
    /\ pc[r] \in {"mutate", "pack"} /\ ret[r] = "child" => IsPermutation(child[r])
    /\ pc[r] = "pack" => IsPermutation(order[r])

\* In the second generation a child of two genes that is not in input order
\* is being packed, next to an elite copy and a population of the first
\* generation's offspring.
PermutationInvariantWitness ==
  \E r \in Runs :
    /\ Len(boxes) = 2
    /\ gen[r] = 1
    /\ pc[r] = "pack" /\ ret[r] = "child"
    /\ child[r] = <<2, 1>>
    /\ next[r] # <<>>
    /\ \E k \in 1..Len(pop[r]) : pop[r][k].order = <<1, 2>>

\* Run r is inside a generation: between the sort that starts it and the
\* push of its last child.
InGeneration(r) ==
  \/ pc[r] \in {"select1", "select2", "cross", "mutate"}
  \/ pc[r] = "pack" /\ ret[r] = "child"

EliteCount(r) == Max(1, population[r] \div 10)

\* C27 (elitism): a generation starts by sorting the population by score,
\* descending, without changing its members; inside a generation the next
\* generation starts with the first max(1, floor(population/10)) individuals
\* of that population, order, score and Result unchanged, and is otherwise
\* made of the children pushed one by one behind them; the population the
\* generation ends with has those individuals in front and population
\* members in all.
Elitism ==
  /\ [](\A r \in Runs :
          InGeneration(r) =>
            /\ \A i, j \in 1..Len(pop[r]) :
                 i < j => ~RLess(pop[r][i].score, pop[r][j].score)
            /\ Len(next[r]) >= EliteCount(r)
            /\ Len(next[r]) < population[r]
            /\ SubSeq(next[r], 1, EliteCount(r)) = SubSeq(pop[r], 1, EliteCount(r)))
  /\ [][\A r \in Runs :
          /\ (pc[r] = "loop" /\ pc'[r] = "select1") =>
               /\ Len(pop'[r]) = Len(pop[r])
               /\ \A x \in Range(pop[r]) :
                    Cardinality({k \in 1..Len(pop[r]) : pop'[r][k] = x})
                      = Cardinality({k \in 1..Len(pop[r]) : pop[r][k] = x})
               /\ next'[r] = SubSeq(pop'[r], 1, EliteCount(r))
          /\ (InGeneration(r) /\ InGeneration(r)') =>
               /\ pop'[r] = pop[r]
               /\ \/ next'[r] = next[r]
                  \/ /\ Len(next'[r]) = Len(next[r]) + 1
                     /\ SubSeq(next'[r], 1, Len(next[r])) = next[r]
                     /\ next'[r][Len(next'[r])].order = child[r]
          /\ (InGeneration(r) /\ pc'[r] = "loop") =>
               /\ Len(pop'[r]) = population[r]
               /\ SubSeq(pop'[r], 1, Len(next[r])) = next[r]
               /\ pop'[r][population[r]].order = child[r]
               /\ SubSeq(pop'[r], 1, EliteCount(r)) = SubSeq(pop[r], 1, EliteCount(r))]_vars

\* In the second generation of a population of 30 with two different
\* scores, the next generation holds the three best of the sorted
\* population in front and children behind them.
ElitismWitness ==
  \E r \in Runs :
    /\ InGeneration(r)
    /\ gen[r] = 1
    /\ population[r] = 30
    /\ EliteCount(r) = 3
    /\ Len(next[r]) > EliteCount(r)
    /\ SubSeq(next[r], 1, 3) = SubSeq(pop[r], 1, 3)
    /\ RLess(pop[r][30].score, pop[r][1].score)

\* The indices the three words ws draw from a population of popsize.
DrawnIndices(popsize, ws) == [k \in 1..3 |-> uniform_int(0, popsize - 1, ws[k]) + 1]

\* w is the winner of the tournament over the indices idx drawn from p: it
\* is the k-th drawn for the first k whose individual has the highest score
\* among the three.
IsTournamentWinner(w, p, idx) ==
  \E k \in 1..3 :
    /\ w = idx[k]
    /\ \A m \in 1..3 : ~RLess(p[idx[k]].score, p[idx[m]].score)
    /\ \A m \in 1..(k - 1) : RLess(p[idx[m]].score, p[idx[k]].score)

\* C28 (tournament selection): whatever three words are drawn when a parent
\* is selected, select_parent returns an individual of the current
\* population at one of the three indices drawn, of the highest score among
\* the three and, among those of that score, the one drawn first.
TournamentSelection ==
  \A r \in Runs :
    pc[r] \in {"select1", "select2"} =>
      \A ws \in [1..3 -> Raw] :
        \E w \in {select_parent(pop[r], population[r], ws)} :
          /\ w \in 1..Len(pop[r])
          /\ IsTournamentWinner(w, pop[r], DrawnIndices(population[r], ws))

\* Both parents are selected from a population whose two best have the same
\* score and whose last has a lower one: the first parent is the second of
\* the population, the second parent the last.
TournamentSelectionWitness ==
  \E r \in Runs :
    /\ pc[r] = "cross"
    /\ pop[r][1].score = pop[r][2].score
    /\ RLess(pop[r][Len(pop[r])].score, pop[r][1].score)
    /\ p1[r] = 2
    /\ p2[r] = Len(pop[r])

\* Run r has sorted the order of individual 0 and is about to pack it.
Seeded0(r) == pc[r] = "pack" /\ ret[r] = "seed" /\ pos[r] = 1

VolumeOf(i) == volume(boxes[i].w, boxes[i].h, boxes[i].d)

\* The volumes of boxes a and b differ by no more than the 1e-12 of line 340.
VolumeTie(a, b) == ~ (Abs(VolumeOf(a) - VolumeOf(b)) > kVolTol)

\* On the boxes of the request, having volumes within 1e-12 of each other
\* is transitive, so that the comparator of lines 335-342 orders them.
VolumeTieTransitive ==
  \A a, b, c \in 1..Len(boxes) : (VolumeTie(a, b) /\ VolumeTie(b, c)) => VolumeTie(a, c)

SweepBefore(pl, cands, box, k) ==
  SweepFrom(1, k, [placed |-> pl, found |-> FALSE, best |-> AABB(0, 0, 0, 0, 0, 0),
                   best_loads |-> <<>>], cands, box)

\* The positions in the enumeration of lines 214-221 of the orientations the
\* sweep accepts at the point cands[c]: inside the truck, colliding with
\* nothing, and passed by the kernel when the sweep comes to them.
AcceptedRots(pl, cands, box, c) ==
  {j \in 1..NumRots :
     \E st \in {SweepBefore(pl, cands, box, (c - 1) * NumRots + j - 1)} :
     \E b \in {AABB(cands[c].x, cands[c].y, cands[c].z,
                    rots(box)[j][1], rots(box)[j][2], rots(box)[j][3])} :
       /\ inside_truck(truck, b)
       /\ ~collides_any(b, st.placed)
       /\ support_ok_and_apply_load(b, box.weight, st.placed).ok}

\* C30 (orientation tie-break): the placement a step of pack_by_order accepts
\* for a box lies at one of the candidate points and has the extents of the
\* first orientation, in the enumeration (w,h,d), (w,d,h), (h,w,d), (h,d,w),
\* (d,w,h), (d,h,w), among those the sweep accepts at that point.
OrientationTieBreak ==
  [][\A r \in Runs :
       (HandlesBox(r) /\ Len(result'[r].placed) = Len(result[r].placed) + 1) =>
         \E b \in {result'[r].placed[Len(result'[r].placed)]} :
         \E cands \in {unique_candidates(candidates[r])} :
         \E c \in 1..Len(cands) :
           /\ cands[c] = Candidate(b.x, b.y, b.z)
           /\ \E J \in {AcceptedRots(placed[r], cands, CurBox(r), c)} :
                /\ J # {}
                /\ \E j \in J :
                     /\ \A i \in J : j <= i
                     /\ <<b.w, b.h, b.d>> = rots(CurBox(r))[j]]_vars

\* The sweep of a box finds a placement at a point where it accepts
\* orientations of different extents, the first of the enumeration not among
\* them.
OrientationTieBreakWitness ==
  \E r \in Runs :
    /\ InLoop(r) /\ ~Overweight(r, CurBox(r))
    /\ \E cands \in {unique_candidates(candidates[r])} :
       \E sw \in {Sweep(placed[r], cands, CurBox(r))} :
         /\ sw.found
         /\ \E c \in 1..Len(cands) :
              /\ cands[c] = Candidate(sw.best.x, sw.best.y, sw.best.z)
              /\ \E J \in {AcceptedRots(placed[r], cands, CurBox(r), c)} :
                   /\ 1 \notin J
                   /\ \E i, j \in J : rots(CurBox(r))[i] # rots(CurBox(r))[j]

\* The ids of the boxes at the positions of order o that are in S, in the
\* order of o.
IdsAt(o, S) ==
  [k \in 1..Cardinality(S) |->
     boxes[o[CHOOSE i \in S : Cardinality({j \in S : j < i}) = k - 1]].id]

\* C31 (result ordering): at every point of pack_by_order the positions of
\* the order handled so far split into those of the boxes placed and those
\* of the boxes unplaced, result.placed holding the ids of the former and
\* result.unplaced those of the latter, each in the order of the
\* permutation; and every step on a box appends its id to the end of one of
\* the two lists and leaves the other as it was.
ResultOrdering ==
  /\ [](\A r \in Runs :
          pc[r] = "pack" =>
            \E S \in SUBSET (1..(pos[r] - 1)) :
              /\ [k \in 1..Len(result[r].placed) |-> result[r].placed[k].id]
                   = IdsAt(order[r], S)
              /\ result[r].unplaced = IdsAt(order[r], (1..(pos[r] - 1)) \ S))
  /\ [][\A r \in Runs :
          HandlesBox(r) =>
            \/ /\ result'[r].unplaced = result[r].unplaced
               /\ Len(result'[r].placed) = Len(result[r].placed) + 1
               /\ SubSeq(result'[r].placed, 1, Len(result[r].placed)) = result[r].placed
               /\ result'[r].placed[Len(result'[r].placed)].id = CurBox(r).id
            \/ /\ result'[r].placed = result[r].placed
               /\ result'[r].unplaced = Append(result[r].unplaced, CurBox(r).id)]_vars

\* pack_by_order returns for an order that is not the input order, with the
\* first and the third box of the order placed, in that order, and the second
\* unplaced between them.
ResultOrderingWitness ==
  \E r \in Runs :
    /\ AtReturn(r)
    /\ Len(order[r]) = 3
    /\ order[r][1] # 1
    /\ boxes[order[r][1]].id # boxes[order[r][3]].id
    /\ [k \in 1..Len(result[r].placed) |-> result[r].placed[k].id]
         = <<boxes[order[r][1]].id, boxes[order[r][3]].id>>
    /\ result[r].unplaced = <<boxes[order[r][2]].id>>

\* The priorities a box is given in place of its own.
OtherPriorities == 0..3

\* The box list with the priority of the box at index i replaced by p.
Reprioritized(bs, i, p) == [bs EXCEPT ![i].priority = p]

\* C32 (priority does not affect fitness): at every point of pack_by_order
\* on a given permutation, the step on the current box is the same whatever
\* priority the box has: the same weight test, the same sweep, the same
\* placed state, Result and candidate points after it; the Result the call
\* starts from and the score of its Result do not depend on a priority
\* either, so that two lists that differ only in priorities give the same
\* Result and score step by step.
PriorityBlind ==
  \A r \in Runs :
    (pc[r] = "pack" /\ ret[r] = "direct") =>
      /\ \A i \in 1..Len(boxes) : \A p \in OtherPriorities :
           EmptyResult(Reprioritized(boxes, i, p)) = EmptyResult(boxes)
      /\ InLoop(r) =>
           \A p \in OtherPriorities :
             \E b \in {CurBox(r)} : \E q \in {[CurBox(r) EXCEPT !.priority = p]} :
               /\ q.id = b.id /\ q.weight = b.weight
               /\ Overweight(r, q) = Overweight(r, b)
               /\ ~Overweight(r, b) =>
                    \E cands \in {unique_candidates(candidates[r])} :
                    \E sw \in {Sweep(placed[r], cands, b)} :
                      /\ Sweep(placed[r], cands, q) = sw
                      /\ sw.found =>
                           /\ AcceptPlaced(sw.placed, sw.best, q)
                                = AcceptPlaced(sw.placed, sw.best, b)
                           /\ AcceptResult(result[r], sw.best, q)
                                = AcceptResult(result[r], sw.best, b)

\* A box of priority 2 is about to be placed on top of a box of priority 1.
PriorityBlindWitness ==
  \E r \in Runs :
    /\ InLoop(r) /\ ret[r] = "direct"
    /\ ~Overweight(r, CurBox(r))
    /\ CurBox(r).priority = 2
    /\ Len(placed[r]) > 0
    /\ \E i \in 1..Len(boxes) : boxes[i].priority = 1 /\ boxes[i].id = placed[r][1].id
    /\ \E sw \in {Sweep(placed[r], unique_candidates(candidates[r]), CurBox(r))} :
         sw.found /\ sw.best.y > 0

\* The loads the boxes placed after pl[i] put on it, by a rule share(i, j)
\* for the load of pl[j] on pl[i].
RECURSIVE LoadFromLater(_, _, _, _)
LoadFromLater(share(_, _), i, j, pl) ==
  IF j > Len(pl) THEN RInt(0)
  ELSE RAdd(share(i, j), LoadFromLater(share, i, j + 1, pl))

\* The share as the claim words it: any positive overlap under a bottom face
\* at the top face counts.
PositiveShare(i, b, weight, pl) ==
  IF /\ pl[i].box.y + pl[i].box.h = b.y
     /\ overlap_area_xz(b, pl[i].box) > 0
  THEN Rat(weight * Min(overlap_area_xz(b, pl[i].box), b.w * b.d), b.w * b.d)
  ELSE RInt(0)

\* C33 as stated: load_on_top of every placed box is the sum of the shares
\* of the boxes placed later on its top face with positive xz overlap.
LoadAccountingAsStated ==
  \A r \in Runs : pc[r] = "pack" =>
    \A i \in 1..Len(placed[r]) :
      placed[r][i].load_on_top =
        LoadFromLater(LAMBDA s, t : PositiveShare(s, placed[r][t].box, placed[r][t].weight,
                                                  placed[r]),
                      i, i + 1, placed[r])

\* C33 (load accounting), amended: after each box processed by pack_by_order
\* the load_on_top of every placed box s is the sum, over the boxes t placed
\* later with t.y above 1e-8, bottom face within 1e-6 of the top face of s
\* and xz overlap above 1e-8, of weight(t) * min(1, overlap / max(1e-8,
\* t.w * t.d)); a box placed at y <= 1e-8 adds no load, and a box adds none
\* to a box whose top face is not at its bottom face.
LoadAccounting ==
  \A r \in Runs : pc[r] = "pack" =>
    \A i \in 1..Len(placed[r]) :
      /\ placed[r][i].load_on_top =
           LoadFromLater(LAMBDA s, t : ShareOn(s, placed[r][t].box, placed[r][t].weight,
                                               placed[r]),
                         i, i + 1, placed[r])
      /\ \A j \in (i + 1)..Len(placed[r]) :
           (\/ placed[r][j].box.y <= kEpsLen
            \/ Abs((placed[r][i].box.y + placed[r][i].box.h) - placed[r][j].box.y) > kFaceTol)
             => ShareOn(i, placed[r][j].box, placed[r][j].weight, placed[r]) = RInt(0)

\* Three boxes are stacked: the lowest carries the second and nothing of the
\* third, the second carries the third, the third carries nothing.
LoadAccountingWitness ==
  \E r \in Runs :
    /\ AtReturn(r)
    /\ Len(placed[r]) = 3
    /\ placed[r][1].box.y = 0
    /\ placed[r][2].box.y = placed[r][1].box.h
    /\ placed[r][3].box.y = placed[r][2].box.y + placed[r][2].box.h
    /\ placed[r][3].weight > 0 /\ placed[r][2].weight > 0
    /\ placed[r][1].load_on_top = RInt(placed[r][2].weight)
    /\ placed[r][2].load_on_top = RInt(placed[r][3].weight)
    /\ placed[r][3].load_on_top = RInt(0)

\* T lies across S and V: a positive overlap with V that is not above kEps.
SliverOverlap ==
  \E r \in Runs :
    /\ pc[r] = "pack" /\ Len(placed[r]) = 3
    /\ overlap_area_xz(placed[r][3].box, placed[r][2].box) \in 1..kEps
    /\ placed[r][3].box.y = placed[r][2].box.y + placed[r][2].box.h

\* The origin of a placement.
Origin(p) == <<p.x, p.y, p.z>>

\* The three points a placed box leaves for later boxes.
ExtremePoints(p) ==
  { <<p.x + p.w, p.y, p.z>>, <<p.x, p.y, p.z + p.d>>, <<p.x, p.y + p.h, p.z>> }

\* C34 (placement origins are extreme points): at every point of
\* pack_by_order, and so in the Result, the first placement is at (0,0,0) and
\* every other one is at (0,0,0) or at (x+w, y, z), (x, y, z+d) or
\* (x, y+h, z) of a placement before it in result.placed.
OriginsAreExtremePoints ==
  \A r \in Runs : pc[r] = "pack" =>
    \E pl \in {result[r].placed} :
      /\ Len(pl) > 0 => Origin(pl[1]) = <<0, 0, 0>>
      /\ \A k \in 1..Len(pl) :
           \/ Origin(pl[k]) = <<0, 0, 0>>
           \/ \E j \in 1..(k - 1) : Origin(pl[k]) \in ExtremePoints(pl[j])

\* A returned Result with a placement on top of an earlier one and a
\* placement beside an earlier one on the floor.
OriginsAreExtremePointsWitness ==
  \E r \in Runs :
    /\ AtReturn(r)
    /\ \E pl \in {result[r].placed} :
         /\ \E k \in 2..Len(pl) : \E j \in 1..(k - 1) :
              pl[k].y > 0 /\ Origin(pl[k]) = <<pl[j].x, pl[j].y + pl[j].h, pl[j].z>>
         /\ \E k \in 2..Len(pl) : \E j \in 1..(k - 1) :
              pl[k].y = 0
              /\ Origin(pl[k]) \in {<<pl[j].x + pl[j].w, pl[j].y, pl[j].z>>,
                                    <<pl[j].x, pl[j].y, pl[j].z + pl[j].d>>}

\* e is the triple (w, h, d) of box b with its three entries permuted.
IsAxisPermutation(e, b) ==
  \E f \in Perms(3) : e = [k \in 1..3 |-> <<b.w, b.h, b.d>>[f[k]]]

\* C35 (orientation preserves the box): every placement of result.placed
\* carries the id of an input box of which its extents (w, h, d) are an axis
\* permutation and whose volume it has; and the placement a step of
\* pack_by_order appends is such a one for the box the step handles.
OrientationPreservesBox ==
  /\ [](\A r \in Runs : pc[r] = "pack" =>
          \A k \in 1..Len(result[r].placed) :
            \E p \in {result[r].placed[k]} :
              /\ \E i \in 1..Len(boxes) : boxes[i].id = p.id
              /\ \A i \in 1..Len(boxes) :
                   boxes[i].id = p.id =>
                     /\ IsAxisPermutation(<<p.w, p.h, p.d>>, boxes[i])
                     /\ volume(p.w, p.h, p.d)
                          = volume(boxes[i].w, boxes[i].h, boxes[i].d))
  /\ [][\A r \in Runs :
          (HandlesBox(r) /\ Len(result'[r].placed) = Len(result[r].placed) + 1) =>
            \E p \in {result'[r].placed[Len(result'[r].placed)]} :
              /\ p.id = CurBox(r).id
              /\ IsAxisPermutation(<<p.w, p.h, p.d>>, CurBox(r))
              /\ volume(p.w, p.h, p.d) = volume(CurBox(r).w, CurBox(r).h, CurBox(r).d)]_vars

\* A returned Result in which a box lies turned: its placement has other
\* extents than the input triple.
OrientationPreservesBoxWitness ==
  \E r \in Runs :
    /\ AtReturn(r)
    /\ \E k \in 1..Len(result[r].placed) : \E i \in 1..Len(boxes) :
         \E p \in {result[r].placed[k]} :
           /\ boxes[i].id = p.id
           /\ <<p.w, p.h, p.d>> # <<boxes[i].w, boxes[i].h, boxes[i].d>>
           /\ p.w # p.h

\* A result has just arrived and the user is away: no click follows.
ResultArrivedUnattended == vpc = "start" /\ ~userPresent

\* Playback has stopped with every placement revealed.
PlaybackFinished == Rendered /\ ~isPlaying /\ visibleCount = Len(placedView)

\* C36 (playback progress): visibleCount stays within 0..placedView.length
\* under every interleaving of timeouts and clicks, every timeout reveals
\* exactly one more placement, and after every result that arrives with the
\* user away, the empty one included, isPlaying becomes false with
\* visibleCount = placedView.length.
PlaybackProgress ==
  /\ [](visibleCount \in 0..Len(placedView))
  /\ [][TimerTick => visibleCount' = visibleCount + 1]_vars
  /\ ResultArrivedUnattended ~> PlaybackFinished

\* The same for the results with at least one placement.
PlaybackProgressNonEmpty ==
  /\ [](visibleCount \in 0..Len(placedView))
  /\ [][TimerTick => visibleCount' = visibleCount + 1]_vars
  /\ (ResultArrivedUnattended /\ items # <<>>) ~> PlaybackFinished

\* After an empty result the playback stays on with the buttons disabled.
PlaybackStuck ==
  Rendered /\ items = <<>> /\ placedView = <<>> /\ isPlaying /\ ~effectDue /\ ~timer
  /\ ~ButtonsEnabled

====
